---- MODULE Spec2Model ----
(***************************************************************************)
(* Offline data synchronisation and local cache of v4-web/local-api:       *)
(* the SQLite record store (schema.sql), the two sync passes               *)
(* (syncBrowserData, syncBlockchainData), the HTTP handlers of server.js   *)
(* and the client side OfflineDataManager cache.                           *)
(***************************************************************************)
EXTENDS Integers, Sequences, FiniteSets, TLC

\* JavaScript null / undefined and SQL NULL
NULL == "NULL"
\* a value better-sqlite3 cannot bind (object, array)
BAD == "BAD"

\* ------------------------------------------------------------------ bounds
MaxPasses == 2
MaxTime == 1
MaxInflight == 2

\* ------------------------------------------------------------------ schema
SchemaTables ==
  {"user_wallets", "user_preferences", "trading_preferences", "dismissed_items",
   "affiliates", "account_balances", "positions", "orders", "fills",
   "transfers", "swaps", "markets", "sync_metadata"}

\* initializeDatabase drops every statement whose text starts with a comment;
\* every CREATE TABLE of schema.sql follows a comment line.
PrecededByComment == [t \in SchemaTables |-> TRUE]

CreatedByInit == {t \in SchemaTables : ~PrecededByComment[t]}

\* UNIQUE constraints declared by schema.sql
UniqueKeys ==
  [user_wallets        |-> {{"wallet_type", "address", "chain_id"}},
   user_preferences    |-> {{"wallet_address"}},
   trading_preferences |-> {{"wallet_address"}},
   dismissed_items     |-> {{"wallet_address", "item_key"}},
   affiliates          |-> {{"wallet_address"}},
   account_balances    |-> {{"wallet_address", "chain_id", "token_symbol", "token_denom"}},
   positions           |-> {},
   orders              |-> {{"order_id"}},
   fills               |-> {{"fill_id"}},
   transfers           |-> {},
   swaps               |-> {},
   markets             |-> {{"market_id"}},
   sync_metadata       |-> {{"wallet_address", "data_type"}}]

\* NOT NULL columns declared by schema.sql
NotNull ==
  [user_wallets        |-> {"wallet_type", "address"},
   user_preferences    |-> {"wallet_address"},
   trading_preferences |-> {"wallet_address"},
   dismissed_items     |-> {"wallet_address", "item_key"},
   affiliates          |-> {"wallet_address"},
   account_balances    |-> {"wallet_address", "chain_id", "token_symbol", "balance"},
   positions           |-> {"wallet_address", "market", "side", "status", "size"},
   orders              |-> {"wallet_address", "order_id", "market", "side", "type", "status", "size"},
   fills               |-> {"wallet_address", "fill_id", "order_id", "market", "side", "size", "price", "fee"},
   transfers           |-> {"wallet_address", "type", "status", "amount", "token_symbol"},
   swaps               |-> {"wallet_address", "from_chain", "to_chain", "from_token", "to_token", "from_amount", "status"},
   markets             |-> {"market_id", "base_asset", "quote_asset", "tick_size", "step_size", "min_order_size"},
   sync_metadata       |-> {"wallet_address", "data_type"}]

EmptyDb == [t \in SchemaTables |-> <<>>]

\* ------------------------------------------------------- statement execution
\* db.prepare(): fails when the table is missing or when the ON CONFLICT
\* target is not a declared PRIMARY KEY / UNIQUE constraint.
PrepareOk(tbls, stmt) ==
  /\ stmt.table \in tbls
  /\ stmt.target \in UniqueKeys[stmt.table]

\* columns holding integers (timestamps, counters, flags); all others hold strings
IntCols ==
  {"is_primary", "has_acknowledged_terms", "notifications_enabled", "updated_at",
   "created_at", "last_updated", "last_sync_at", "records_synced", "post_only",
   "reduce_only", "dismissed_at", "closed_at"}

\* two rows collide on a unique key; SQL NULLs are distinct from each other
SameKey(r1, r2, cols) == \A c \in cols : r1[c] = r2[c] /\ r1[c] # NULL

ConflictIdx(rows, row, cols) == {i \in 1..Len(rows) : SameKey(rows[i], row, cols)}

\* stmt.run(row) of a plain INSERT: no ON CONFLICT clause takes effect
RunInsertOnly(rows, stmt, row) ==
  IF \E c \in DOMAIN row \ IntCols : row[c] = BAD
    THEN [rows |-> rows, err |-> "TypeError"]
  ELSE IF \E c \in NotNull[stmt.table] : row[c] = NULL
    THEN [rows |-> rows, err |-> "NOT NULL constraint failed"]
  ELSE [rows |-> Append(rows, row), err |-> NULL]

\* stmt.run(row): the new table contents and the error thrown, if any
Run(rows, stmt, row) ==
  LET hit == ConflictIdx(rows, row, stmt.target)
      i0 == CHOOSE i \in hit : \A j \in hit : i <= j
  IN  IF \E c \in DOMAIN row \ IntCols : row[c] = BAD
        THEN [rows |-> rows, err |-> "TypeError"]
      ELSE IF \E c \in NotNull[stmt.table] : row[c] = NULL
        THEN [rows |-> rows, err |-> "NOT NULL constraint failed"]
      ELSE IF hit # {}
        THEN IF stmt.action = "update"
               THEN [rows |-> [rows EXCEPT ![i0] =
                                 [c \in DOMAIN rows[i0] |->
                                    IF c \in stmt.set THEN row[c] ELSE rows[i0][c]]],
                     err |-> NULL]
               ELSE [rows |-> rows, err |-> NULL]
      ELSE IF \E u \in UniqueKeys[stmt.table] \ {stmt.target} : ConflictIdx(rows, row, u) # {}
        THEN [rows |-> rows, err |-> "UNIQUE constraint failed"]
      ELSE [rows |-> Append(rows, row), err |-> NULL]

\* the single element of a singleton set
Only(S) == CHOOSE x \in S : TRUE

\* state of one pass while its transaction function runs
TxStart(d, cats) ==
  [db |-> d, synced |-> [c \in cats |-> 0], errors |-> <<>>, threw |-> NULL, writes |-> <<>>]

\* one statement of a per-record loop: try { stmt.run(); synced++ } catch { errors.push }
RunOne(st0, stmt, row, cat, label, swallowUnique) ==
  Only({ IF r.err = NULL
           THEN [st EXCEPT !.db[stmt.table] = r.rows,
                           !.synced[cat] = @ + 1,
                           !.writes = Append(@, [table |-> stmt.table,
                                                 target |-> stmt.target, row |-> row])]
         ELSE IF swallowUnique /\ r.err = "UNIQUE constraint failed"
           THEN st
         ELSE [st EXCEPT !.errors = Append(@, label)]
       : <<st, r>> \in { <<x, Run(x.db[stmt.table], stmt, row)>> : x \in {st0} } })

RECURSIVE RunEach(_, _, _, _, _, _)
RunEach(st0, stmt, rows, cat, label, swallowUnique) ==
  Only({ IF rs = <<>> THEN st
         ELSE RunEach(RunOne(st, stmt, Head(rs), cat, label, swallowUnique),
                      stmt, Tail(rs), cat, label, swallowUnique)
       : <<st, rs>> \in {<<st0, rows>>} })

\* a section of a pass: prepare the statement, then run it for every record.
\* prepInTry: the prepare call sits inside the try block of the section.
Section(st0, tbls, stmt, rows, cat, label, prepInTry, swallowUnique) ==
  Only({ IF st.threw # NULL THEN st
         ELSE IF ~PrepareOk(tbls, stmt)
           THEN IF prepInTry THEN [st EXCEPT !.errors = Append(@, label)]
                ELSE [st EXCEPT !.threw = "prepare failed"]
         ELSE RunEach(st, stmt, rs, cat, label, swallowUnique)
       : <<st, rs>> \in {<<st0, rows>>} })

RECURSIVE SumOver(_, _)
SumOver(f, S) ==
  IF S = {} THEN 0
  ELSE LET c == CHOOSE x \in S : TRUE IN f[c] + SumOver(f, S \ {c})

\* the sync_metadata write that ends a pass; neither prepare nor run is in a try
\* the sync metadata upsert without `records_synced = excluded.records_synced`
syncMetaStmtKeepsCount ==
  [table |-> "sync_metadata", target |-> {"wallet_address", "data_type"},
   action |-> "update", set |-> {"last_sync_at", "sync_status"}]

syncMetaStmt ==
  [table |-> "sync_metadata", target |-> {"wallet_address", "data_type"},
   action |-> "update", set |-> {"last_sync_at", "sync_status", "records_synced"}]

MetaRow(st, walletAddress, dataType, t) ==
  [wallet_address |-> walletAddress, data_type |-> dataType,
   last_sync_at |-> t, sync_status |-> "success", error_message |-> NULL,
   records_synced |-> SumOver(st.synced, DOMAIN st.synced)]

MetaSection(st0, tbls, walletAddress, dataType, t) ==
  Only({ IF st.threw # NULL THEN st
         ELSE IF ~PrepareOk(tbls, syncMetaStmt) THEN [st EXCEPT !.threw = "prepare failed"]
         ELSE Only({ IF r.err = NULL
                       THEN [st EXCEPT !.db["sync_metadata"] = r.rows,
                                       !.writes = Append(@, [table |-> "sync_metadata",
                                                             target |-> syncMetaStmt.target,
                                                             row |-> MetaRow(st, walletAddress, dataType, t)])]
                       ELSE [st EXCEPT !.threw = r.err]
                   : r \in {Run(st.db["sync_metadata"], syncMetaStmt,
                                MetaRow(st, walletAddress, dataType, t))} })
       : st \in {st0} })

\* statements run outside any transaction: what was written stays written
TransactionNoRollback(d, st) == st.db

\* db.transaction(fn)(): commit when fn returns, roll back when it throws
Transaction(d, st) == IF st.threw = NULL THEN st.db ELSE d

\* a catch block that records the failure but leaves result.success as set
SyncResultAlwaysOk(st, failure) ==
  [success |-> TRUE,
   synced  |-> st.synced,
   errors  |-> IF st.threw = NULL THEN st.errors
               ELSE Append(st.errors, failure)]

\* the SyncResult returned after the try/catch around the transaction;
\* failure: the prefix of the message the catch block pushes
SyncResult(st, failure) ==
  [success |-> st.threw = NULL,
   synced  |-> st.synced,
   errors  |-> IF st.threw = NULL THEN st.errors
               ELSE Append(st.errors, failure)]

\* ------------------------------------------------- session-state sync pass
\* an optional object or array: None when absent, Some(x) when present
None == <<>>
Some(x) == <<x>>
Get(o) == o[1]

\* an absent timestamp
NoTime == -1

\* x || fallback
Or(x, fallback) == IF x = NULL THEN fallback ELSE x

\* JSON.stringify(x || {})
Stringify(x) == IF x = NULL THEN "{}" ELSE x

\* Array.prototype.find(w => w.type === ty)
RECURSIVE FindType(_, _)
FindType(ws, ty) ==
  IF ws = <<>> THEN None
  ELSE IF Head(ws).type = ty THEN Some(Head(ws)) ELSE FindType(Tail(ws), ty)

\* data.wallets?.find(dydx) || data.wallets?.find(evm) || data.wallets?.[0]
PrimaryWallet(data) ==
  IF data.wallets = None THEN None
  ELSE IF FindType(Get(data.wallets), "dydx") # None THEN FindType(Get(data.wallets), "dydx")
  ELSE IF FindType(Get(data.wallets), "evm") # None THEN FindType(Get(data.wallets), "evm")
  ELSE IF Len(Get(data.wallets)) > 0 THEN Some(Get(data.wallets)[1])
  ELSE None

BrowserCats ==
  {"wallets", "preferences", "tradingPreferences", "dismissedItems",
   "affiliates", "transfers", "swaps"}

walletStmt ==
  [table |-> "user_wallets", target |-> {"wallet_type", "address", "chain_id"},
   action |-> "update", set |-> {"is_primary"}]

\* a preferences upsert that leaves a stored locale as it is
prefStmtPartial ==
  [table |-> "user_preferences", target |-> {"wallet_address"}, action |-> "update",
   set |-> {"selected_network", "color_mode", "has_acknowledged_terms",
            "notifications_enabled", "updated_at"}]

prefStmt ==
  [table |-> "user_preferences", target |-> {"wallet_address"}, action |-> "update",
   set |-> {"locale", "selected_network", "color_mode", "has_acknowledged_terms",
            "notifications_enabled", "updated_at"}]

tradePrefStmt ==
  [table |-> "trading_preferences", target |-> {"wallet_address"}, action |-> "update",
   set |-> {"default_slippage", "trade_layout", "chart_preferences", "display_unit",
            "updated_at"}]

\* a dismissed-items statement that overwrites the time of dismissal
dismissedStmtUpdating ==
  [table |-> "dismissed_items", target |-> {"wallet_address", "item_key"},
   action |-> "update", set |-> {"dismissed_at"}]

dismissedStmt ==
  [table |-> "dismissed_items", target |-> {"wallet_address", "item_key"},
   action |-> "nothing", set |-> {}]

affiliateStmt ==
  [table |-> "affiliates", target |-> {"wallet_address"}, action |-> "update",
   set |-> {"affiliate_address", "affiliate_metadata"}]

browserTransferStmt ==
  [table |-> "transfers", target |-> {"tx_hash"}, action |-> "nothing", set |-> {}]

swapStmt ==
  [table |-> "swaps", target |-> {"tx_hash"}, action |-> "nothing", set |-> {}]

Bool01(b) == IF b = TRUE THEN 1 ELSE 0

WalletRows(ws, walletAddress) ==
  [i \in 1..Len(ws) |->
     [wallet_type |-> ws[i].type, address |-> ws[i].address,
      chain_id |-> Or(ws[i].chainId, NULL),
      is_primary |-> Bool01(ws[i].address = walletAddress)]]

PrefRow(p, walletAddress, t) ==
  [wallet_address |-> walletAddress, locale |-> Or(p.locale, NULL),
   selected_network |-> Or(p.network, NULL), color_mode |-> Or(p.colorMode, NULL),
   has_acknowledged_terms |-> Bool01(p.hasAcknowledgedTerms),
   notifications_enabled |-> Bool01(p.notificationsEnabled), updated_at |-> t]

TradePrefRow(p, walletAddress, t) ==
  [wallet_address |-> walletAddress, default_slippage |-> Or(p.defaultSlippage, NULL),
   trade_layout |-> Stringify(p.tradeLayout),
   chart_preferences |-> Stringify(p.chartPreferences),
   display_unit |-> Or(p.displayUnit, "ASSET"), updated_at |-> t]

DismissedRows(items, walletAddress, t) ==
  [i \in 1..Len(items) |->
     [wallet_address |-> walletAddress, item_key |-> items[i].key,
      dismissed_at |-> IF items[i].dismissedAt = NoTime THEN t ELSE items[i].dismissedAt]]

AffiliateRow(a, walletAddress) ==
  [wallet_address |-> walletAddress, affiliate_address |-> Or(a.address, NULL),
   affiliate_metadata |-> a.json]

BrowserTransferRows(trs, walletAddress, t) ==
  [i \in 1..Len(trs) |->
     [wallet_address |-> walletAddress, transfer_id |-> Or(trs[i].id, NULL),
      tx_hash |-> Or(trs[i].txHash, NULL), type |-> Or(trs[i].type, "TRANSFER"),
      status |-> Or(trs[i].status, "PENDING"), amount |-> Or(trs[i].amount, "0"),
      token_symbol |-> Or(trs[i].token, NULL),
      created_at |-> IF trs[i].createdAt = NoTime THEN t ELSE trs[i].createdAt,
      updated_at |-> IF trs[i].updatedAt = NoTime THEN t ELSE trs[i].updatedAt]]

SwapRows(sws, walletAddress, t) ==
  [i \in 1..Len(sws) |->
     [wallet_address |-> walletAddress, swap_id |-> Or(sws[i].id, NULL),
      tx_hash |-> Or(sws[i].txHash, NULL), from_chain |-> Or(sws[i].fromChainId, NULL),
      to_chain |-> Or(sws[i].toChainId, NULL), from_token |-> Or(sws[i].fromToken, NULL),
      to_token |-> Or(sws[i].toToken, NULL), from_amount |-> Or(sws[i].fromAmount, "0"),
      status |-> Or(sws[i].status, "PENDING"),
      created_at |-> IF sws[i].createdAt = NoTime THEN t ELSE sws[i].createdAt,
      updated_at |-> IF sws[i].updatedAt = NoTime THEN t ELSE sws[i].updatedAt]]

\* sections 1 to 7 of the transaction function of syncBrowserData
BrowserSections(s0, tbls, data, wa, t) ==
  LET s1 == Section(s0, tbls, walletStmt, WalletRows(Get(data.wallets), wa),
                    "wallets", "Wallet", FALSE, FALSE)
      s2 == IF data.preferences = None THEN s1
            ELSE Section(s1, tbls, prefStmt, <<PrefRow(Get(data.preferences), wa, t)>>,
                         "preferences", "Preferences", TRUE, FALSE)
      s3 == IF data.tradingPreferences = None THEN s2
            ELSE Section(s2, tbls, tradePrefStmt,
                         <<TradePrefRow(Get(data.tradingPreferences), wa, t)>>,
                         "tradingPreferences", "Trading preferences", TRUE, FALSE)
      s4 == IF data.dismissedItems = None THEN s3
            ELSE Section(s3, tbls, dismissedStmt,
                         DismissedRows(Get(data.dismissedItems), wa, t),
                         "dismissedItems", "Dismissed item", FALSE, FALSE)
      s5 == IF data.affiliates = None \/ Get(data.affiliates).json = "{}" THEN s4
            ELSE Section(s4, tbls, affiliateStmt,
                         <<AffiliateRow(Get(data.affiliates), wa)>>,
                         "affiliates", "Affiliates", TRUE, FALSE)
      s6 == IF data.transfers = None THEN s5
            ELSE Section(s5, tbls, browserTransferStmt,
                         BrowserTransferRows(Get(data.transfers), wa, t),
                         "transfers", "Transfer", FALSE, TRUE)
      s7 == IF data.swaps = None THEN s6
            ELSE Section(s6, tbls, swapStmt, SwapRows(Get(data.swaps), wa, t),
                         "swaps", "Swap", FALSE, TRUE)
  IN  s7

\* the transaction function with the sync metadata written first
BrowserTxMetaFirst(d, tbls, data, t) ==
  LET pw == PrimaryWallet(data)
      wa == Get(pw).address
      s0 == TxStart(d, BrowserCats)
  IN  IF pw = None
        THEN [s0 EXCEPT !.threw = "No wallet address found in export data"]
        ELSE BrowserSections(MetaSection(s0, tbls, wa, "browser_storage", t),
                             tbls, data, wa, t)

\* the function handed to db.transaction() by syncBrowserData: the primary
\* wallet, the data sections, then section 8, the sync metadata
BrowserTx(d, tbls, data, t) ==
  LET pw == PrimaryWallet(data)
      wa == Get(pw).address
      s0 == TxStart(d, BrowserCats)
  IN  IF pw = None
        THEN [s0 EXCEPT !.threw = "No wallet address found in export data"]
        ELSE MetaSection(BrowserSections(s0, tbls, data, wa, t), tbls, wa,
                         "browser_storage", t)

\* syncBrowserData(db, data): the new store contents and the SyncResult
syncBrowserData(d, tbls, data, t) ==
  Only({ [db |-> Transaction(d, st), result |-> SyncResult(st, "Transaction failed"),
           writes |-> st.writes, threw |-> st.threw # NULL]
       : st \in {BrowserTx(d, tbls, data, t)} })

\* ------------------------------------------------------------ remote fetcher
\* parseFloat on the numerals the model uses; NaN for every other string
NaN == 999
Numerals == {"-3", "-2", "-1", "0", "1", "2", "3"}
ParseFloat(s) ==
  CASE s = "-3" -> 0 - 3 [] s = "-2" -> 0 - 2 [] s = "-1" -> 0 - 1 [] s = "0" -> 0
    [] s = "1" -> 1 [] s = "2" -> 2 [] s = "3" -> 3 [] OTHER -> NaN

\* Math.abs(x).toString()
AbsToString(x) ==
  CASE x = NaN -> "NaN" [] x = 0 -> "0" [] x = 1 \/ x = 0 - 1 -> "1"
    [] x = 2 \/ x = 0 - 2 -> "2" [] x = 3 \/ x = 0 - 3 -> "3"

\* parseFloat(size) > 0 ? 'LONG' : 'SHORT' (NaN > 0 is false)
SideOf(size) == IF ParseFloat(size) # NaN /\ ParseFloat(size) > 0 THEN "LONG" ELSE "SHORT"

ChainId == "blackbottle-mainnet-1"
UsdcDenom == "ibc/8E27"

RECURSIVE Concat(_)
Concat(ss) == IF ss = <<>> THEN <<>> ELSE Head(ss) \o Concat(Tail(ss))

\* fetchAccountBalances: one USDC row per subaccount with a truthy equity
fetchAccountBalances(addr, r) ==
  IF ~r.ok THEN <<>>
  ELSE IF r.subaccounts = None THEN <<>>
  ELSE LET subs == Get(r.subaccounts)
       IN  Concat([i \in 1..Len(subs) |->
             IF subs[i].equity = NULL THEN <<>>
             ELSE <<[wallet_address |-> addr, chain_id |-> ChainId,
                     token_symbol |-> "USDC", token_denom |-> UsdcDenom,
                     balance |-> subs[i].equity,
                     available_balance |-> Or(subs[i].freeCollateral, subs[i].equity),
                     locked_balance |-> "0"]>>])

\* `${subaccount.address}-${market}`
PositionId(subAddress, market) ==
  CASE subAddress = "dydx1a" /\ market = "BTC-USD" -> "dydx1a-BTC-USD"
    [] subAddress = "dydx1a" /\ market = "ETH-USD" -> "dydx1a-ETH-USD"
    [] subAddress = "0xb" /\ market = "BTC-USD" -> "0xb-BTC-USD"
    [] subAddress = "0xb" /\ market = "ETH-USD" -> "0xb-ETH-USD"
    [] OTHER -> "other"

PositionOf(addr, sub, p, t) ==
  [wallet_address |-> addr, position_id |-> PositionId(sub.address, p.market),
   market |-> p.market, side |-> SideOf(p.size), status |-> "OPEN",
   size |-> AbsToString(ParseFloat(p.size)), max_size |-> Or(p.maxSize, p.size),
   entry_price |-> p.entryPrice, exit_price |-> NULL,
   realized_pnl |-> Or(p.realizedPnl, "0"), unrealized_pnl |-> Or(p.unrealizedPnl, "0"),
   created_at |-> IF p.createdAt = NoTime THEN t ELSE p.createdAt,
   updated_at |-> t, closed_at |-> NoTime]

\* fetchPositions: every open perpetual position of every subaccount
fetchPositions(addr, r, t) ==
  IF ~r.ok THEN <<>>
  ELSE IF r.subaccounts = None THEN <<>>
  ELSE LET subs == Get(r.subaccounts)
       IN  Concat([i \in 1..Len(subs) |->
             IF subs[i].openPerpetualPositions = None THEN <<>>
             ELSE LET ps == Get(subs[i].openPerpetualPositions)
                  IN  [j \in 1..Len(ps) |-> PositionOf(addr, subs[i], ps[j], t)]])

OrderOf(addr, o, t) ==
  [wallet_address |-> addr, order_id |-> o.id, client_id |-> Or(o.clientId, NULL),
   market |-> Or(o.ticker, o.market), side |-> o.side, type |-> o.type,
   status |-> o.status, price |-> Or(o.price, NULL),
   trigger_price |-> Or(o.triggerPrice, NULL), size |-> o.size,
   remaining_size |-> Or(o.remainingSize, o.size),
   post_only |-> Bool01(o.postOnly), reduce_only |-> Bool01(o.reduceOnly),
   time_in_force |-> Or(o.timeInForce, NULL), good_til_block |-> Or(o.goodTilBlock, NULL),
   created_at |-> IF o.createdAt = NoTime THEN t ELSE o.createdAt,
   updated_at |-> IF o.updatedAt = NoTime THEN t ELSE o.updatedAt]

\* fetchOrders without the inner try: a failed subaccount query reaches the
\* outer catch and the whole sub-fetch returns []
fetchOrdersPropagating(addr, r, ordersOf, t) ==
  IF ~r.ok THEN <<>>
  ELSE IF r.subaccounts = None THEN <<>>
  ELSE LET subs == Get(r.subaccounts)
       IN  IF \E i \in 1..Len(subs) : ~ordersOf[subs[i].address].ok THEN <<>>
           ELSE Concat([i \in 1..Len(subs) |->
                  LET q == ordersOf[subs[i].address]
                  IN  IF q.list = None THEN <<>>
                      ELSE [j \in 1..Len(Get(q.list)) |-> OrderOf(addr, Get(q.list)[j], t)]])

\* fetchOrders: the subaccount list, then one order query per subaccount;
\* a failed subaccount query is skipped
fetchOrders(addr, r, ordersOf, t) ==
  IF ~r.ok THEN <<>>
  ELSE IF r.subaccounts = None THEN <<>>
  ELSE LET subs == Get(r.subaccounts)
       IN  Concat([i \in 1..Len(subs) |->
             LET q == ordersOf[subs[i].address]
             IN  IF ~q.ok \/ q.list = None THEN <<>>
                 ELSE [j \in 1..Len(Get(q.list)) |-> OrderOf(addr, Get(q.list)[j], t)]])

\* fetchFills
fetchFills(addr, r, t) ==
  IF ~r.ok THEN <<>>
  ELSE IF r.fills = None THEN <<>>
  ELSE [i \in 1..Len(Get(r.fills)) |->
          LET f == Get(r.fills)[i]
          IN  [wallet_address |-> addr, fill_id |-> f.id, order_id |-> f.orderId,
               market |-> Or(f.market, f.ticker), side |-> f.side, size |-> f.size,
               price |-> f.price, fee |-> Or(f.fee, "0"),
               liquidity |-> Or(f.liquidity, f.type),
               created_at |-> IF f.createdAt = NoTime THEN t ELSE f.createdAt]]

\* fetchTransfers
fetchTransfers(addr, r, t) ==
  IF ~r.ok THEN <<>>
  ELSE IF r.transfers = None THEN <<>>
  ELSE [i \in 1..Len(Get(r.transfers)) |->
          LET x == Get(r.transfers)[i]
          IN  [wallet_address |-> addr, transfer_id |-> x.id,
               tx_hash |-> Or(x.transactionHash, NULL), type |-> Or(x.type, "TRANSFER"),
               status |-> Or(x.status, "CONFIRMED"),
               amount |-> Or(x.size, Or(x.amount, "0")),
               token_symbol |-> Or(x.symbol, "USDC"), token_denom |-> Or(x.denom, NULL),
               fee |-> Or(x.fee, NULL),
               created_at |-> IF x.createdAt = NoTime THEN t ELSE x.createdAt,
               updated_at |-> IF x.updatedAt = NoTime THEN t ELSE x.updatedAt]]

\* fetchMarkets
fetchMarkets(r) ==
  IF ~r.ok THEN <<>>
  ELSE IF r.markets = None THEN <<>>
  ELSE [i \in 1..Len(Get(r.markets)) |->
          LET m == Get(r.markets)[i]
          IN  [market_id |-> m.marketId, base_asset |-> Or(m.baseAsset, m.base),
               quote_asset |-> Or(m.quoteAsset, Or(m.quote, "USD")),
               tick_size |-> Or(m.tickSize, m.priceChange24H),
               step_size |-> Or(m.stepSize, m.quantum),
               min_order_size |-> Or(m.minOrderSize, m.stepSize),
               initial_margin_fraction |-> Or(m.initialMarginFraction, NULL),
               maintenance_margin_fraction |-> Or(m.maintenanceMarginFraction, NULL),
               status |-> Or(m.status, "ACTIVE")]]

\* Promise.all of the six fetchers against one state of the indexer
FetchAll(addr, ix, t) ==
  [balances  |-> fetchAccountBalances(addr, ix.addresses),
   positions |-> fetchPositions(addr, ix.addresses, t),
   orders    |-> fetchOrders(addr, ix.addresses, ix.orders, t),
   fills     |-> fetchFills(addr, ix.fills, t),
   transfers |-> fetchTransfers(addr, ix.transfers, t),
   markets   |-> fetchMarkets(ix.markets)]

\* ------------------------------------------------------- ledger sync pass
LedgerCats == {"balances", "positions", "orders", "fills", "transfers", "markets"}

balanceStmt ==
  [table |-> "account_balances",
   target |-> {"wallet_address", "chain_id", "token_symbol", "token_denom"},
   action |-> "update",
   set |-> {"balance", "available_balance", "locked_balance", "last_updated"}]

positionStmt ==
  [table |-> "positions", target |-> {"wallet_address", "position_id"},
   action |-> "update", set |-> {"size", "unrealized_pnl", "updated_at"}]

orderStmt ==
  [table |-> "orders", target |-> {"order_id"}, action |-> "update",
   set |-> {"status", "remaining_size", "updated_at"}]

fillStmt ==
  [table |-> "fills", target |-> {"fill_id"}, action |-> "nothing", set |-> {}]

transferStmt ==
  [table |-> "transfers", target |-> {"tx_hash"}, action |-> "update",
   set |-> {"status", "updated_at"}]

marketStmt ==
  [table |-> "markets", target |-> {"market_id"}, action |-> "update",
   set |-> {"tick_size", "step_size", "min_order_size", "initial_margin_fraction",
            "maintenance_margin_fraction", "status", "updated_at"}]

\* datetime('now') columns filled in by the statement itself
Stamp(rows, col, t) ==
  [i \in 1..Len(rows) |->
     [c \in DOMAIN rows[i] \cup {col} |-> IF c = col THEN t ELSE rows[i][c]]]

\* the function handed to db.transaction() by syncBlockchainData
LedgerTx(d, tbls, addr, batch, t) ==
  LET s0 == TxStart(d, LedgerCats)
      s1 == Section(s0, tbls, balanceStmt, Stamp(batch.balances, "last_updated", t),
                    "balances", "Balance", FALSE, FALSE)
      s2 == Section(s1, tbls, positionStmt, batch.positions,
                    "positions", "Position", FALSE, FALSE)
      s3 == Section(s2, tbls, orderStmt, batch.orders, "orders", "Order", FALSE, TRUE)
      s4 == Section(s3, tbls, fillStmt, batch.fills, "fills", "Fill", FALSE, TRUE)
      s5 == Section(s4, tbls, transferStmt, batch.transfers,
                    "transfers", "Transfer", FALSE, TRUE)
      s6 == Section(s5, tbls, marketStmt, Stamp(batch.markets, "updated_at", t),
                    "markets", "Market", FALSE, FALSE)
  IN  MetaSection(s6, tbls, addr, "blockchain", t)

\* the write phase with its statements run outside db.transaction(): what
\* ran before a throw stays in the store
syncBlockchainDataNoTransaction(d, tbls, addr, batch, t) ==
  Only({ [db |-> st.db, result |-> SyncResult(st, "Sync failed"),
           writes |-> st.writes, threw |-> st.threw # NULL]
       : st \in {LedgerTx(d, tbls, addr, batch, t)} })

\* the write phase of syncBlockchainData(db, address): store and SyncResult
syncBlockchainData(d, tbls, addr, batch, t) ==
  Only({ [db |-> Transaction(d, st), result |-> SyncResult(st, "Sync failed"),
           writes |-> st.writes, threw |-> st.threw # NULL]
       : st \in {LedgerTx(d, tbls, addr, batch, t)} })

\* ------------------------------------------------------------------ inputs
\* wallet entries of an exported snapshot
WDydx == [type |-> "dydx", address |-> "dydx1a", chainId |-> "dydx-mainnet-1"]
WEvm == [type |-> "evm", address |-> "0xb", chainId |-> NULL]
WNoType == [type |-> NULL, address |-> "0xc", chainId |-> "1"]
WNoAddr == [type |-> "solana", address |-> NULL, chainId |-> "mainnet-beta"]
\* a wallet entry whose address is the empty string
WEmptyAddr == [type |-> "dydx", address |-> "", chainId |-> "dydx-mainnet-1"]

Pref1 ==
  [locale |-> "en", network |-> "mainnet", colorMode |-> "dark",
   hasAcknowledgedTerms |-> TRUE, notificationsEnabled |-> TRUE]
Pref2 ==
  [locale |-> NULL, network |-> "testnet", colorMode |-> NULL,
   hasAcknowledgedTerms |-> FALSE, notificationsEnabled |-> TRUE]
Trade1 ==
  [defaultSlippage |-> "0.5", tradeLayout |-> "default", chartPreferences |-> NULL,
   displayUnit |-> NULL]
Trade2 ==
  [defaultSlippage |-> NULL, tradeLayout |-> NULL, chartPreferences |-> "tv",
   displayUnit |-> "USD"]
Item1 == [key |-> "welcome_dialog", dismissedAt |-> NoTime]
Item2 == [key |-> "trading_tip_1", dismissedAt |-> 0]
Aff1 == [address |-> "aff1", json |-> "{address:aff1}"]
AffEmpty == [address |-> NULL, json |-> "{}"]
BTransfer1 ==
  [id |-> "t1", txHash |-> "0xh1", type |-> "DEPOSIT", status |-> "PENDING",
   amount |-> "1", token |-> "USDC", createdAt |-> NoTime, updatedAt |-> NoTime]

BSwap1 ==
  [id |-> "s1", txHash |-> "0xh2", fromChainId |-> "1", toChainId |-> "noble-1",
   fromToken |-> "ETH", toToken |-> "USDC", fromAmount |-> "3", status |-> "SUCCESS",
   createdAt |-> 0, updatedAt |-> NoTime]

Snapshot(ws, pr, tp, di, af, tr, sw) ==
  [wallets |-> ws, preferences |-> pr, tradingPreferences |-> tp,
   dismissedItems |-> di, affiliates |-> af, transfers |-> tr, swaps |-> sw]

\* what exportBrowserData finds in the browser: the blackbottle.* keys of
\* localStorage and the parsed persist:root (None when the key is absent)
Browser(evm, ledger, redux) ==
  [EvmAddress |-> evm, DydxAddress |-> ledger, SolAddress |-> NULL, EvmChainId |-> NULL,
   SelectedLocale |-> "en", SelectedNetwork |-> "mainnet",
   OnboardingHasAcknowledgedTerms |-> TRUE, persistRoot |-> redux]

\* a persisted redux state; the transfers and swaps slices are objects
Redux1 ==
  [wallet |-> [evmAddress |-> NULL, blackbottleAddress |-> NULL, solAddress |-> NULL,
               nobleAddress |-> NULL],
   appUiConfigs |-> [theme |-> "dark", defaultSlippage |-> NULL, tradeLayout |-> NULL,
                     displayUnit |-> NULL],
   tradingView |-> NULL,
   dismissable |-> <<[key |-> "welcome_dialog", value |-> TRUE],
                     [key |-> "trading_tip_1", value |-> FALSE]>>,
   affiliates |-> Some(Aff1), transfers |-> "object", swaps |-> "object"]

\* reduxState?.slice?.field
Slice(ls, slice, field) ==
  IF ls.persistRoot = None THEN NULL ELSE Get(ls.persistRoot)[slice][field]

\* exportBrowserData up to the POST: the exportData object. A transfers or
\* swaps value that is not an array is None, which is how the sync pass
\* treats it (Array.isArray).
exportBrowserData(ls, t) ==
  LET walletData ==
        [evmAddress |-> Or(ls.EvmAddress, Slice(ls, "wallet", "evmAddress")),
         blackbottleAddress |-> Or(ls.DydxAddress, Slice(ls, "wallet", "blackbottleAddress")),
         solanaAddress |-> Or(ls.SolAddress, Slice(ls, "wallet", "solAddress")),
         nobleAddress |-> Slice(ls, "wallet", "nobleAddress")]
      Push(addr, ty, chain) ==
        IF addr = NULL THEN <<>> ELSE <<[type |-> ty, address |-> addr, chainId |-> chain]>>
      wallets ==
        Concat(<<Push(walletData.evmAddress, "evm", Or(ls.EvmChainId, "1")),
                 Push(walletData.blackbottleAddress, "blackbottle", ChainId),
                 Push(walletData.solanaAddress, "solana", "mainnet-beta"),
                 Push(walletData.nobleAddress, "cosmos", "noble-1")>>)
      dismissable == IF ls.persistRoot = None THEN <<>> ELSE Get(ls.persistRoot).dismissable
      dismissed ==
        Concat([i \in 1..Len(dismissable) |->
                  IF dismissable[i].value = TRUE
                    THEN <<[key |-> dismissable[i].key, dismissedAt |-> t]>> ELSE <<>>])
      ArrayOr(slice) ==
        IF ls.persistRoot = None THEN Some(<<>>)
        ELSE IF Get(ls.persistRoot)[slice] = NULL THEN Some(<<>>) ELSE None
  IN  Snapshot(Some(wallets),
               Some([locale |-> ls.SelectedLocale, network |-> ls.SelectedNetwork,
                     colorMode |-> Slice(ls, "appUiConfigs", "theme"),
                     hasAcknowledgedTerms |-> ls.OnboardingHasAcknowledgedTerms,
                     notificationsEnabled |-> TRUE]),
               Some([defaultSlippage |-> Slice(ls, "appUiConfigs", "defaultSlippage"),
                     tradeLayout |-> Slice(ls, "appUiConfigs", "tradeLayout"),
                     chartPreferences |-> IF ls.persistRoot = None THEN NULL
                                          ELSE Get(ls.persistRoot).tradingView,
                     displayUnit |-> Slice(ls, "appUiConfigs", "displayUnit")]),
               Some(dismissed),
               Some(IF ls.persistRoot = None THEN AffEmpty
                    ELSE IF Get(ls.persistRoot).affiliates = None THEN AffEmpty
                    ELSE Get(Get(ls.persistRoot).affiliates)),
               ArrayOr("transfers"), ArrayOr("swaps"))

\* the session-state snapshots a caller may post
BrowserInputs ==
  << Snapshot(None, Some(Pref1), None, None, None, None, None),
     Snapshot(Some(<<>>), Some(Pref1), None, None, None, None, None),
     Snapshot(Some(<<WDydx>>), Some(Pref1), Some(Trade1), Some(<<Item1>>), Some(Aff1),
              None, None),
     Snapshot(Some(<<WEvm, WDydx>>), Some(Pref2), None, Some(<<Item1, Item2>>),
              Some(AffEmpty), None, None),
     Snapshot(Some(<<WNoType, WDydx>>), Some(Pref1), None, None, None, None, None),
     Snapshot(Some(<<WDydx>>), Some(Pref2), None, None, None, Some(<<BTransfer1>>), None),
     Snapshot(Some(<<WEvm>>), Some(Pref1), None, None, Some(Aff1), None, None),
     Snapshot(Some(<<WNoAddr>>), Some(Pref1), None, None, None, None, None),
     Snapshot(Some(<<WEvm>>), None, None, None, None, None, Some(<<>>)),
     exportBrowserData(Browser("0xb", "dydx1a", Some(Redux1)), 0),
     exportBrowserData(Browser("0xb", "dydx1a", None), 0),
     Snapshot(Some(<<WDydx>>), None, None, None, None,
              Some(<<[BTransfer1 EXCEPT !.status = "CONFIRMED"]>>), Some(<<BSwap1>>)),
     Snapshot(Some(<<WDydx>>), Some(Pref2), Some(Trade2), None, None, None, None),
     Snapshot(Some(<<WEmptyAddr>>), Some(Pref1), None, Some(<<Item1>>), None, None, None) >>

Addresses == {"dydx1a", "0xb"}

Pos(market, size) ==
  [market |-> market, size |-> size, maxSize |-> NULL, entryPrice |-> "100",
   realizedPnl |-> NULL, unrealizedPnl |-> "5", createdAt |-> NoTime]

Sub(address, equity, free, positions) ==
  [address |-> address, equity |-> equity, freeCollateral |-> free,
   openPerpetualPositions |-> positions]

Down == [ok |-> FALSE]
NoOrders == [a \in Addresses |-> [ok |-> TRUE, list |-> Some(<<>>)]]
Indexer(subs) ==
  [addresses |-> [ok |-> TRUE, subaccounts |-> subs],
   orders |-> NoOrders,
   fills |-> [ok |-> TRUE, fills |-> None],
   transfers |-> [ok |-> TRUE, transfers |-> None],
   markets |-> [ok |-> TRUE, markets |-> None]]

\* one order, fill and transfer as the indexer reports them
Ord(id, status, price, remaining) ==
  [id |-> id, clientId |-> "7", ticker |-> "BTC-USD", market |-> NULL, side |-> "BUY",
   type |-> "LIMIT", status |-> status, price |-> price, triggerPrice |-> NULL,
   size |-> "2", remainingSize |-> remaining, postOnly |-> FALSE, reduceOnly |-> TRUE,
   timeInForce |-> "GTT", goodTilBlock |-> NULL, createdAt |-> 0, updatedAt |-> NoTime]

Fil(id, orderId, fee) ==
  [id |-> id, orderId |-> orderId, market |-> "BTC-USD", ticker |-> NULL,
   side |-> "BUY", size |-> "2", price |-> "100", fee |-> fee, liquidity |-> "TAKER",
   type |-> NULL, createdAt |-> 0]

Xfer(id, hash, status) ==
  [id |-> id, transactionHash |-> hash, type |-> "DEPOSIT", status |-> status,
   size |-> "10", amount |-> NULL, symbol |-> NULL, denom |-> NULL, fee |-> NULL,
   createdAt |-> 0, updatedAt |-> NoTime]

\* an indexer that answers every query: subaccounts, orders of each
\* subaccount, fills and transfers
IndexerWith(subs, ords, fls, xfs) ==
  [addresses |-> [ok |-> TRUE, subaccounts |-> Some(subs)],
   orders |-> [a \in Addresses |-> [ok |-> TRUE, list |-> Some(ords)]],
   fills |-> [ok |-> TRUE, fills |-> Some(fls)],
   transfers |-> [ok |-> TRUE, transfers |-> Some(xfs)],
   markets |-> [ok |-> TRUE, markets |-> None]]

\* the states of the remote indexer a ledger pass may meet
IndexerStates ==
  << [addresses |-> Down, orders |-> [a \in Addresses |-> Down], fills |-> Down,
      transfers |-> Down, markets |-> Down],
     Indexer(Some(<<Sub("dydx1a", "100", "40", Some(<<Pos("BTC-USD", "2")>>))>>)),
     Indexer(Some(<<Sub("dydx1a", BAD, NULL,
                        Some(<<Pos("BTC-USD", "2"), Pos("ETH-USD", "-3")>>))>>)),
     Indexer(Some(<<Sub("dydx1a", "250", NULL, None), Sub("0xb", "300", NULL, None)>>)),
     IndexerWith(<<Sub("dydx1a", "100", NULL, None)>>, <<Ord("o1", "OPEN", "100", "2")>>,
                 <<Fil("f1", "o1", "1")>>, <<Xfer("t1", "0xh1", "PENDING")>>),
     IndexerWith(<<Sub("dydx1a", "100", NULL, None)>>, <<Ord("o1", "FILLED", "101", "0")>>,
                 <<Fil("f1", "o1", "2")>>, <<Xfer("t1", "0xh1", "CONFIRMED")>>) >>

\* ---------------------------------------------------------------- reads
RowsOf(rows, col, v) == SelectSeq(rows, LAMBDA r : r[col] = v)

\* GET /wallet/:walletAddress
WalletView(d, addr) ==
  [wallets |-> RowsOf(d["user_wallets"], "address", addr),
   preferences |-> RowsOf(d["user_preferences"], "wallet_address", addr),
   tradingPreferences |-> RowsOf(d["trading_preferences"], "wallet_address", addr),
   dismissedItems |-> RowsOf(d["dismissed_items"], "wallet_address", addr),
   affiliates |-> RowsOf(d["affiliates"], "wallet_address", addr),
   balances |-> RowsOf(d["account_balances"], "wallet_address", addr),
   positions |-> SelectSeq(RowsOf(d["positions"], "wallet_address", addr),
                           LAMBDA r : r.status = "OPEN"),
   orders |-> SelectSeq(RowsOf(d["orders"], "wallet_address", addr),
                        LAMBDA r : r.status \in {"PENDING", "OPEN", "UNTRIGGERED"}),
   recentTransfers |-> RowsOf(d["transfers"], "wallet_address", addr),
   recentSwaps |-> RowsOf(d["swaps"], "wallet_address", addr)]

\* GET /sync/status/:walletAddress
SyncStatus(d, addr) == RowsOf(d["sync_metadata"], "wallet_address", addr)

\* ------------------------------------------------- OfflineDataManager cache
\* the clock counts minutes
CacheTimeout == 1

MaxSyncs == 1
MaxLoads == 1

\* facades and the wallet address each was constructed with
Managers == {"m1", "m2", "m3"}
BoundTo == [m \in Managers |-> IF m = "m3" THEN "0xb" ELSE "dydx1a"]

\* the cache key of getWalletData(); the other accessors differ in key and loader only
Keys == {"walletData"}

EmptyView == [k \in {"walletData"} |-> <<>>]

NoEntry == [present |-> FALSE, data |-> EmptyView, timestamp |-> 0, ver |-> 0]

\* the loader behind each accessor: getWalletData / getLocalBalances
Load(key, d, addr) ==
  IF key = "walletData" THEN WalletView(d, addr)
  ELSE [balances |-> WalletView(d, addr).balances]

\* an entry counted as young up to and including the timeout
FreshInclusive(entry, t) == entry.present /\ t - entry.timestamp <= CacheTimeout

\* cached && Date.now() - cached.timestamp < this.cacheTimeout
Fresh(entry, t) == entry.present /\ t - entry.timestamp < CacheTimeout

\* clearCache() over one Map shared by all facades
clearCacheShared(c, m) == [x \in Managers |-> [k \in Keys |-> NoEntry]]

\* clearCache(): this.cache.clear()
clearCache(c, m) == [c EXCEPT ![m] = [k \in Keys |-> NoEntry]]

\* the snapshot a facade syncs (the one exported for its account) and the
\* indexer states its ledger sync meets
SyncSnapshots(m) == IF BoundTo[m] = "dydx1a" THEN {3} ELSE {7}
SyncIndexers == {2}

\* ------------------------------------------------------------ state machine
VARIABLES
  tables,   \* the tables present in the database file
  db,       \* committed contents of the database: table -> rows
  now,      \* the clock
  passes,   \* number of sync requests handled so far
  pending,  \* ledger passes between their fetch phase and their write phase
  last,     \* the request handled last and its outcome
  ver,      \* number of transactions committed so far
  wrote,    \* per account: ver after the last committed pass for it
  probe,    \* the call of a client helper under examination and its result
  cache,    \* per facade: key -> entry
  rd,       \* per facade and key: the getCached call in flight
  sy,       \* per facade: the syncAll call in flight
  synced,   \* per facade: ver when its last syncAll returned
  syncs,    \* number of syncAll calls started
  loads,    \* number of loader calls started
  ret       \* the accessor call that returned last

storeVars == <<tables, db, now, passes, pending, last, ver, wrote, probe>>
cacheVars == <<cache, rd, sy, synced, syncs, loads, ret>>
vars == <<tables, db, now, passes, pending, last, ver, wrote, probe,
          cache, rd, sy, synced, syncs, loads, ret>>

NoProbe == [fn |-> "none"]

NoResult == [success |-> FALSE, synced |-> <<>>, errors |-> <<>>]

Accounts == {"dydx1a", "0xb", "0xc", "", NULL}

Idle == [phase |-> "idle", data |-> EmptyView, ver |-> 0, floor |-> 0]

\* the accessor call that returned last. ver: the transaction count the value
\* was loaded at; floor: synced of the facade when the call started; acc: wrote
\* of its account and peers: the facades whose syncAll had returned after a
\* commit, both when the call returned
NoRet ==
  [m |-> NULL, key |-> NULL, hit |-> FALSE, ver |-> 0, floor |-> 0, acc |-> 0,
   peers |-> {}]

InitStore ==
  /\ db = EmptyDb
  /\ now = 0
  /\ passes = 0
  /\ pending = <<>>
  /\ last = [op |-> "none", input |-> 0, wallet |-> NULL, status |-> 0,
             called |-> FALSE, result |-> NoResult, writes |-> <<>>,
             threw |-> FALSE, repeat |-> FALSE]
  /\ ver = 0
  /\ wrote = [a \in Accounts |-> 0]
  /\ probe = NoProbe

InitCache ==
  /\ cache = [m \in Managers |-> [k \in Keys |-> NoEntry]]
  /\ rd = [m \in Managers |-> [k \in Keys |-> Idle]]
  /\ sy = [m \in Managers |-> "idle"]
  /\ synced = [m \in Managers |-> 0]
  /\ syncs = 0
  /\ loads = 0
  /\ ret = NoRet

\* the database file is either what initializeDatabase creates or one that
\* already carries the tables of schema.sql
Init ==
  /\ tables \in {CreatedByInit, SchemaTables}
  /\ InitStore
  /\ InitCache

\* time passes
Tick ==
  /\ now < MaxTime
  /\ now' = now + 1
  /\ UNCHANGED <<tables, probe, db, passes, pending, last, ver, wrote>>
  /\ UNCHANGED cacheVars

\* the record kept of a handled request; repeat: same request as the one before
Handled(op, i, wallet, status, r) ==
  [op |-> op, input |-> i, wallet |-> wallet, status |-> status, called |-> TRUE,
   result |-> r.result, writes |-> r.writes, threw |-> r.threw,
   repeat |-> last.called /\ last.op = op /\ last.input = i /\ last.wallet = wallet]

\* a pass that committed: one more transaction, the newest for its account
Committed(r, addr) ==
  /\ ver' = IF r.result.success THEN ver + 1 ELSE ver
  /\ wrote' = IF r.result.success THEN [wrote EXCEPT ![addr] = ver + 1] ELSE wrote

\* the handler of POST /sync/browser-data for snapshot BrowserInputs[i]
HandleBrowserData(i) ==
  /\ passes < MaxPasses
  /\ \E data \in {BrowserInputs[i]} :
     \E r \in {syncBrowserData(db, tables, data, now)} :
     LET rejected == data.wallets = None \/ Len(Get(data.wallets)) = 0
     IN  /\ passes' = passes + 1
         /\ IF rejected
              THEN /\ db' = db
                   /\ last' = [op |-> "browser", input |-> i, wallet |-> NULL,
                               status |-> 400, called |-> FALSE, result |-> NoResult,
                               writes |-> <<>>, threw |-> FALSE, repeat |-> FALSE]
                   /\ UNCHANGED <<ver, wrote>>
              ELSE /\ db' = r.db
                   /\ last' = Handled("browser", i, Get(PrimaryWallet(data)).address,
                                       IF r.result.success THEN 200 ELSE 500, r)
                   /\ Committed(r, Get(PrimaryWallet(data)).address)
         /\ UNCHANGED <<tables, probe, now, pending>>

\* POST /sync/browser-data sent by any client other than a facade
PostBrowserData(i) ==
  /\ HandleBrowserData(i)
  /\ UNCHANGED cacheVars

\* syncBrowserData(db, data) called without the HTTP guard (file import)
LoadBrowserData(i) ==
  /\ passes < MaxPasses
  /\ \E data \in {BrowserInputs[i]} :
     \E r \in {syncBrowserData(db, tables, data, now)} :
     LET wa == IF PrimaryWallet(data) = None THEN NULL
               ELSE Get(PrimaryWallet(data)).address
     IN  /\ passes' = passes + 1
         /\ db' = r.db
         /\ last' = Handled("browser", i, wa, 0, r)
         /\ Committed(r, wa)
         /\ UNCHANGED <<tables, probe, now, pending>>
         /\ UNCHANGED cacheVars

\* syncBlockchainData up to the end of `await Promise.all(...)`
HandleFetch(addr, i, owner) ==
  /\ passes < MaxPasses
  /\ Len(pending) < MaxInflight
  /\ passes' = passes + 1
  /\ pending' = Append(pending, [addr |-> addr, input |-> i, owner |-> owner,
                                 batch |-> FetchAll(addr, IndexerStates[i], now)])
  /\ UNCHANGED <<tables, probe, db, now, last, ver, wrote>>

\* POST /sync/blockchain-data, or the CLI, started by any client other than a facade
FetchBlockchainData(addr, i) ==
  /\ HandleFetch(addr, i, NULL)
  /\ UNCHANGED cacheVars

\* the write phase of the k-th pending ledger pass and its response
WriteBlockchainData(k) ==
  \E p \in {pending[k]} :
  \E r \in {syncBlockchainData(db, tables, p.addr, p.batch, now)} :
      /\ db' = r.db
      /\ pending' = [j \in 1..(Len(pending) - 1) |->
                       IF j < k THEN pending[j] ELSE pending[j + 1]]
      /\ last' = Handled("ledger", p.input, p.addr,
                          IF r.result.success THEN 200 ELSE 500, r)
      /\ Committed(r, p.addr)
      /\ sy' = IF p.owner = NULL THEN sy ELSE [sy EXCEPT ![p.owner] = "clear"]
      /\ UNCHANGED <<tables, probe, now, passes, cache, rd, synced, syncs, loads, ret>>

StoreNext ==
  \/ Tick
  \/ \E i \in 1..Len(BrowserInputs) : PostBrowserData(i)
  \/ \E i \in 1..Len(BrowserInputs) : LoadBrowserData(i)
  \/ \E a \in Addresses, i \in 1..Len(IndexerStates) : FetchBlockchainData(a, i)
  \/ \E k \in 1..Len(pending) : WriteBlockchainData(k)

Next == StoreNext

Spec == Init /\ [][Next]_vars

\* ------------------------------------------------------ facade operations
\* getCached(key, fetcher) up to `await fetcher()`: a fresh entry is returned
\* at once, otherwise the request of the loader is sent
StartRead(m, k) ==
  /\ rd[m][k].phase = "idle"
  /\ IF Fresh(cache[m][k], now)
       THEN /\ ret' = [m |-> m, key |-> k, hit |-> TRUE, ver |-> cache[m][k].ver,
                       floor |-> synced[m], acc |-> wrote[BoundTo[m]],
                       peers |-> {x \in Managers : synced[x] > 0}]
            /\ UNCHANGED <<rd, loads>>
       ELSE /\ loads < MaxLoads
            /\ loads' = loads + 1
            /\ rd' = [rd EXCEPT ![m][k] = [Idle EXCEPT !.phase = "sent",
                                                       !.floor = synced[m]]]
            /\ UNCHANGED ret
  /\ UNCHANGED <<cache, sy, synced, syncs>>
  /\ UNCHANGED storeVars

\* the server handles the GET /wallet/:address of a loader
ServeRead(m, k) ==
  /\ rd[m][k].phase = "sent"
  /\ rd' = [rd EXCEPT ![m][k] = [@ EXCEPT !.phase = "loaded",
                                         !.data = Load(k, db, BoundTo[m]),
                                         !.ver = ver]]
  /\ UNCHANGED <<cache, sy, synced, syncs, loads, ret>>
  /\ UNCHANGED storeVars

\* the loader resolves: cache.set(key, {data, timestamp: Date.now()}); return data
ResolveRead(m, k) ==
  /\ rd[m][k].phase = "loaded"
  /\ cache' = [cache EXCEPT ![m][k] = [present |-> TRUE, data |-> rd[m][k].data,
                                       timestamp |-> now, ver |-> rd[m][k].ver]]
  /\ ret' = [m |-> m, key |-> k, hit |-> FALSE, ver |-> rd[m][k].ver,
             floor |-> rd[m][k].floor, acc |-> wrote[BoundTo[m]],
             peers |-> {x \in Managers : synced[x] > 0}]
  /\ rd' = [rd EXCEPT ![m][k] = Idle]
  /\ UNCHANGED <<sy, synced, syncs, loads>>
  /\ UNCHANGED storeVars

\* syncAll -> autoSyncAllData: the browser snapshot is posted and handled
SyncAllBrowser(m, i) ==
  /\ sy[m] = "idle"
  /\ syncs < MaxSyncs
  /\ syncs' = syncs + 1
  /\ HandleBrowserData(i)
  /\ sy' = [sy EXCEPT ![m] = "chain"]
  /\ UNCHANGED <<cache, rd, synced, loads, ret>>

\* autoSyncAllData: the ledger sync is posted and its fetch phase runs
SyncAllFetch(m, i) ==
  /\ sy[m] = "chain"
  /\ HandleFetch(BoundTo[m], i, m)
  /\ sy' = [sy EXCEPT ![m] = "write"]
  /\ UNCHANGED <<cache, rd, synced, syncs, loads, ret>>

\* syncAll after `await autoSyncAllData(...)`: this.clearCache(); return result
SyncAllReturn(m) ==
  /\ sy[m] = "clear"
  /\ cache' = clearCache(cache, m)
  /\ synced' = [synced EXCEPT ![m] = ver]
  /\ sy' = [sy EXCEPT ![m] = "idle"]
  /\ UNCHANGED <<rd, syncs, loads, ret>>
  /\ UNCHANGED storeVars

\* clearCache() called by the owner of the facade
ClearCache(m) ==
  /\ cache' = clearCache(cache, m)
  /\ UNCHANGED <<rd, sy, synced, syncs, loads, ret>>
  /\ UNCHANGED storeVars

CacheNext ==
  \/ Tick
  \/ \E m \in Managers, k \in Keys : StartRead(m, k)
  \/ \E m \in Managers, k \in Keys : ServeRead(m, k)
  \/ \E m \in Managers, k \in Keys : ResolveRead(m, k)
  \/ \E m \in Managers : \E i \in SyncSnapshots(m) : SyncAllBrowser(m, i)
  \/ \E m \in Managers, i \in SyncIndexers : SyncAllFetch(m, i)
  \/ \E k \in 1..Len(pending) : WriteBlockchainData(k)
  \/ \E m \in Managers : SyncAllReturn(m)
  \/ \E m \in Managers : ClearCache(m)

\* the facades over a database file that carries the tables of schema.sql
InitWithSchema ==
  /\ tables = SchemaTables
  /\ InitStore
  /\ InitCache

SpecCache == InitWithSchema /\ [][CacheNext]_vars

\* one facade has read the empty store at time 0, or none has read yet
InitRead ==
  /\ tables = SchemaTables
  /\ InitStore
  /\ cache \in {[m \in Managers |-> [k \in Keys |-> NoEntry]],
                [m \in Managers |-> [k \in Keys |->
                   IF m = "m1" THEN [present |-> TRUE, data |-> Load(k, EmptyDb, BoundTo[m]),
                                     timestamp |-> 0, ver |-> 0]
                   ELSE NoEntry]]}
  /\ rd = [m \in Managers |-> [k \in Keys |-> Idle]]
  /\ sy = [m \in Managers |-> "idle"]
  /\ synced = [m \in Managers |-> 0]
  /\ syncs = 0
  /\ loads = 0
  /\ ret = NoRet

\* the accessors of the facades while snapshots are posted by other clients
ReadNext ==
  \/ Tick
  \/ \E m \in Managers, k \in Keys : StartRead(m, k)
  \/ \E m \in Managers, k \in Keys : ServeRead(m, k)
  \/ \E m \in Managers, k \in Keys : ResolveRead(m, k)
  \/ \E m \in Managers : ClearCache(m)
  \/ \E i \in {3} : PostBrowserData(i)

SpecRead == InitRead /\ [][ReadNext]_vars

\* ------------------------------------------------------------- needsSync
\* intervalMs = 5 * 60 * 1000, in minutes of the clock
DefaultInterval == 5

\* new Date(text).getTime() for the text SQLite's datetime('now') stores: a
\* UTC wall clock 'YYYY-MM-DD HH:MM:SS' without zone designator. Engines read
\* this format as wall clock of the client's zone (tz: minutes east of UTC);
\* an engine that rejects the format yields Invalid Date, whose time is NaN.
DateParse(wall, tz, engine) == IF engine = "invalid" THEN NaN ELSE wall - tz

\* getLastSyncTimestamp: status?.last_sync_at || null, null when the request fails
getLastSyncTimestamp(resp, dataType) ==
  LET hits == SelectSeq(resp.rows, LAMBDA r : r.data_type = dataType)
  IN  IF ~resp.ok \/ hits = <<>> THEN None ELSE Some(hits[1].last_sync_at)

\* needsSync after the status request has settled, at client time t
needsSync(resp, dataType, intervalMs, t, tz, engine) ==
  LET lastSync == getLastSyncTimestamp(resp, dataType)
      lastSyncTime == DateParse(Get(lastSync), tz, engine)
  IN  IF lastSync = None THEN TRUE
      ELSE IF lastSyncTime = NaN THEN FALSE
      ELSE t - lastSyncTime > intervalMs

\* the inputs of the needsSync calls examined
SyncTimes == {0, 1}
Ages == {0, 1, 4, 5, 6, 10}
Zones == {-300, 0, 60}
Engines == {"local", "invalid"}
Intervals == {DefaultInterval, 1}

\* a client calls needsSync for dydx1a against a store that is empty or holds
\* what a snapshot pass at some time left
InitNeedsSync ==
  /\ tables = SchemaTables
  /\ db \in {EmptyDb} \cup
            {syncBrowserData(EmptyDb, SchemaTables, BrowserInputs[3], s).db : s \in SyncTimes}
  /\ now \in {s + a : s \in SyncTimes, a \in Ages}
  /\ \A i \in 1..Len(db["sync_metadata"]) :
        now - db["sync_metadata"][i].last_sync_at \in Ages
  /\ passes = 0
  /\ pending = <<>>
  /\ last = [op |-> "none", input |-> 0, wallet |-> NULL, status |-> 0,
             called |-> FALSE, result |-> NoResult, writes |-> <<>>,
             threw |-> FALSE, repeat |-> FALSE]
  /\ ver = 0
  /\ wrote = [a \in Accounts |-> 0]
  /\ probe \in [fn : {"needsSync"}, phase : {"called"}, wallet : {"dydx1a"},
                 dataType : {"browser_storage", "blockchain"}, interval : Intervals,
                 tz : Zones, engine : Engines,
                 resp : {[ok |-> FALSE, rows |-> <<>>]}, result : {FALSE}]
  /\ InitCache

\* GET /sync/status/:walletAddress answers the request of getSyncStatus
GetSyncStatus ==
  /\ probe.phase = "called"
  /\ probe' = [probe EXCEPT !.phase = "served",
                            !.resp = [ok |-> TRUE, rows |-> SyncStatus(db, probe.wallet)]]
  /\ UNCHANGED <<tables, db, now, passes, pending, last, ver, wrote>>
  /\ UNCHANGED cacheVars

\* the request of getSyncStatus fails: response not ok, or the server is down
GetSyncStatusFails ==
  /\ probe.phase = "called"
  /\ probe' = [probe EXCEPT !.phase = "failed"]
  /\ UNCHANGED <<tables, db, now, passes, pending, last, ver, wrote>>
  /\ UNCHANGED cacheVars

\* needsSync resumes after the await and returns
NeedsSyncReturn ==
  /\ probe.phase \in {"served", "failed"}
  /\ probe' = [probe EXCEPT !.phase = "returned",
                            !.result = needsSync(probe.resp, probe.dataType, probe.interval,
                                                 now, probe.tz, probe.engine)]
  /\ UNCHANGED <<tables, db, now, passes, pending, last, ver, wrote>>
  /\ UNCHANGED cacheVars

NeedsSyncNext == GetSyncStatus \/ GetSyncStatusFails \/ NeedsSyncReturn

SpecNeedsSync == InitNeedsSync /\ [][NeedsSyncNext]_vars

\* ------------------------------------------------- fetch phase, per request
\* one market as the indexer reports it
Mkt(id) ==
  [marketId |-> id, baseAsset |-> NULL, base |-> "BTC", quoteAsset |-> NULL,
   quote |-> NULL, tickSize |-> "1", priceChange24H |-> NULL, stepSize |-> "1",
   quantum |-> NULL, minOrderSize |-> NULL, initialMarginFraction |-> NULL,
   maintenanceMarginFraction |-> NULL, status |-> NULL]

\* what the indexer answers when every request succeeds: two subaccounts,
\* one position of the given size, one order per subaccount, one fill, one
\* transfer, one market. omit: the optional fields of each record are left
\* out. ordersDown: the subaccounts whose order request fails.
Upstream(size, omit, ordersDown) ==
  [addresses |->
     [ok |-> TRUE,
      subaccounts |->
        Some(<<Sub("dydx1a", "100", IF omit THEN NULL ELSE "40",
                   Some(<<IF omit THEN [Pos("BTC-USD", size) EXCEPT !.entryPrice = NULL,
                                                                     !.unrealizedPnl = NULL]
                          ELSE Pos("BTC-USD", size)>>)),
               Sub("0xb", "300", NULL, None)>>)],
   orders |->
     [a \in Addresses |->
        IF a \in ordersDown THEN Down
        ELSE [ok |-> TRUE,
              list |-> Some(<<LET id == IF a = "dydx1a" THEN "o1" ELSE "o2"
                              IN  IF omit
                                    THEN [Ord(id, "OPEN", NULL, NULL) EXCEPT !.size = NULL]
                                  ELSE Ord(id, "OPEN", "100", "2")>>)]],
   fills |->
     [ok |-> TRUE,
      fills |-> Some(<<IF omit THEN [Fil("f1", "o1", NULL) EXCEPT !.size = NULL,
                                                                 !.price = NULL]
                       ELSE Fil("f1", "o1", "1")>>)],
   transfers |->
     [ok |-> TRUE,
      transfers |-> Some(<<IF omit THEN [Xfer("t1", "0xh1", "PENDING") EXCEPT !.size = NULL]
                           ELSE Xfer("t1", "0xh1", "PENDING")>>)],
   markets |-> [ok |-> TRUE, markets |-> Some(<<Mkt("BTC-USD")>>)]]

PositionSizes == {"2", "-3", "0", BAD}

\* a fetcher whose catch block rethrows: a failed request rejects the promise
SettleRethrow(c, addr, ix, failed, t) ==
  LET r(e) == IF c \in failed THEN Down ELSE ix[e]
  IN  IF c \in failed THEN [rejected |-> TRUE, rows |-> <<>>]
      ELSE [rejected |-> FALSE,
            rows |-> CASE c = "balances" -> fetchAccountBalances(addr, r("addresses"))
                       [] c = "positions" -> fetchPositions(addr, r("addresses"), t)
                       [] c = "orders" -> fetchOrders(addr, r("addresses"), ix.orders, t)
                       [] c = "fills" -> fetchFills(addr, r("fills"), t)
                       [] c = "transfers" -> fetchTransfers(addr, r("transfers"), t)
                       [] c = "markets" -> fetchMarkets(r("markets"))]

\* the promise of sub-fetch c settles; failed: the sub-fetches whose own
\* request to the indexer fails. Every fetcher catches and returns [].
Settle(c, addr, ix, failed, t) ==
  LET r(e) == IF c \in failed THEN Down ELSE ix[e]
  IN  [rejected |-> FALSE,
       rows |-> CASE c = "balances" -> fetchAccountBalances(addr, r("addresses"))
                  [] c = "positions" -> fetchPositions(addr, r("addresses"), t)
                  [] c = "orders" -> fetchOrders(addr, r("addresses"), ix.orders, t)
                  [] c = "fills" -> fetchFills(addr, r("fills"), t)
                  [] c = "transfers" -> fetchTransfers(addr, r("transfers"), t)
                  [] c = "markets" -> fetchMarkets(r("markets"))]

\* syncBlockchainData has issued its six sub-fetches for dydx1a
InitFetch ==
  /\ tables = SchemaTables
  /\ db = EmptyDb
  /\ now = 0
  /\ passes = 0
  /\ pending = <<>>
  /\ last = [op |-> "none", input |-> 0, wallet |-> NULL, status |-> 0,
             called |-> FALSE, result |-> NoResult, writes |-> <<>>,
             threw |-> FALSE, repeat |-> FALSE]
  /\ ver = 0
  /\ wrote = [a \in Accounts |-> 0]
  /\ \E size \in PositionSizes, omit \in BOOLEAN, ordersDown \in SUBSET Addresses,
        failed \in SUBSET LedgerCats :
        probe = [fn |-> "syncBlockchainData", phase |-> "fetching", addr |-> "dydx1a",
                 ix |-> Upstream(size, omit, ordersDown), failed |-> failed,
                 got |-> [c \in LedgerCats |-> None]]
  /\ InitCache

\* one of the six promises settles, in any order
FetchSettles(c) ==
  /\ probe.fn = "syncBlockchainData" /\ probe.phase = "fetching"
  /\ probe.got[c] = None
  /\ probe' = [probe EXCEPT
                 !.got[c] = Some(Settle(c, probe.addr, probe.ix, probe.failed, now))]
  /\ UNCHANGED <<tables, db, now, passes, pending, last, ver, wrote>>
  /\ UNCHANGED cacheVars

\* `await Promise.all([...])` resumes: with the six arrays, or in the catch
\* block of syncBlockchainData when a promise rejected
PromiseAll ==
  /\ probe.fn = "syncBlockchainData" /\ probe.phase = "fetching"
  /\ \A c \in LedgerCats : probe.got[c] # None
  /\ IF \E c \in LedgerCats : Get(probe.got[c]).rejected
       THEN /\ probe' = [probe EXCEPT !.phase = "rejected"]
            /\ last' = [op |-> "ledger", input |-> 0, wallet |-> probe.addr,
                        status |-> 500, called |-> TRUE,
                        result |-> [success |-> FALSE,
                                    synced |-> [c \in LedgerCats |-> 0],
                                    errors |-> <<"Sync failed">>],
                        writes |-> <<>>, threw |-> TRUE, repeat |-> FALSE]
            /\ UNCHANGED pending
       ELSE /\ probe' = [probe EXCEPT !.phase = "writing"]
            /\ pending' = <<[addr |-> probe.addr, input |-> 0, owner |-> NULL,
                             batch |-> [c \in LedgerCats |-> Get(probe.got[c]).rows]]>>
            /\ UNCHANGED last
  /\ UNCHANGED <<tables, db, now, passes, ver, wrote>>
  /\ UNCHANGED cacheVars

FetchNext ==
  \/ \E c \in LedgerCats : FetchSettles(c)
  \/ PromiseAll
  \/ \E k \in 1..Len(pending) : WriteBlockchainData(k)

SpecFetch == InitFetch /\ [][FetchNext]_vars

\* ------------------------------------------------ autoSyncAllData (client)
\* response.statusText of the local API's answers
StatusText(status) ==
  CASE status = 400 -> "Bad Request"
    [] status = 500 -> "Internal Server Error"
    [] OTHER -> "OK"

\* the client's syncBrowserData / syncBlockchainData: fetch(), then throw
\* unless response.ok, else the parsed body. reached: the request got
\* through; l: the request as the server handled it; what: the source named
\* in the message.
ClientSync(reached, l, what) ==
  IF ~reached THEN [threw |-> TRUE, message |-> "Failed to fetch", value |-> NoResult]
  ELSE IF l.status # 200
    THEN [threw |-> TRUE, message |-> <<what, StatusText(l.status)>>, value |-> NoResult]
  ELSE [threw |-> FALSE, message |-> NULL, value |-> l.result]

\* a catch block of autoSyncAllData that drops the message
AutoSyncCaughtSilent(c) ==
  IF c.threw THEN [success |-> FALSE, synced |-> <<>>, errors |-> <<>>]
  ELSE c.value

\* try { results.x = await sync...() } catch (err) { results.x = {...} }
AutoSyncCaught(c) ==
  IF c.threw THEN [success |-> FALSE, synced |-> <<>>, errors |-> <<c.message>>]
  ELSE c.value

\* autoSyncAllData(walletAddress, browserData, indexerUrl) has been called
InitAutoSync ==
  /\ tables \in {CreatedByInit, SchemaTables}
  /\ db = EmptyDb
  /\ now = 0
  /\ passes = 0
  /\ pending = <<>>
  /\ last = [op |-> "none", input |-> 0, wallet |-> NULL, status |-> 0,
             called |-> FALSE, result |-> NoResult, writes |-> <<>>,
             threw |-> FALSE, repeat |-> FALSE]
  /\ ver = 0
  /\ wrote = [a \in Accounts |-> 0]
  /\ \E i \in 1..Len(BrowserInputs), j \in 1..Len(IndexerStates),
        net \in [browser : BOOLEAN, blockchain : BOOLEAN] :
        probe = [fn |-> "autoSyncAllData", phase |-> "browser", addr |-> "dydx1a",
                 snapshot |-> i, indexer |-> j, net |-> net,
                 server |-> [browser |-> None, blockchain |-> None],
                 results |-> [browser |-> None, blockchain |-> None]]
  /\ InitCache

\* the POST of the snapshot reaches the local API, which handles it
AutoSyncPostBrowser ==
  /\ probe.fn = "autoSyncAllData" /\ probe.phase = "browser"
  /\ probe.net.browser /\ last.op = "none"
  /\ HandleBrowserData(probe.snapshot)
  /\ UNCHANGED cacheVars

\* `await syncBrowserData(browserData)` settles: results.browser is set
AutoSyncBrowserSettles ==
  /\ probe.fn = "autoSyncAllData" /\ probe.phase = "browser"
  /\ probe.net.browser => last.op = "browser"
  /\ probe' = [probe EXCEPT
                 !.phase = "blockchain",
                 !.server.browser = IF probe.net.browser /\ last.called
                                      THEN Some(last.result) ELSE None,
                 !.results.browser =
                    Some(AutoSyncCaught(ClientSync(probe.net.browser, last, "browser")))]
  /\ UNCHANGED <<tables, db, now, passes, pending, last, ver, wrote>>
  /\ UNCHANGED cacheVars

\* the POST of the address reaches the local API, whose fetch phase runs
AutoSyncPostBlockchain ==
  /\ probe.fn = "autoSyncAllData" /\ probe.phase = "blockchain"
  /\ probe.net.blockchain /\ last.op # "ledger" /\ pending = <<>>
  /\ HandleFetch(probe.addr, probe.indexer, NULL)
  /\ UNCHANGED cacheVars

\* `await syncBlockchainData(walletAddress, indexerUrl)` settles and
\* autoSyncAllData returns results
AutoSyncBlockchainSettles ==
  /\ probe.fn = "autoSyncAllData" /\ probe.phase = "blockchain"
  /\ probe.net.blockchain => last.op = "ledger"
  /\ probe' = [probe EXCEPT
                 !.phase = "returned",
                 !.server.blockchain = IF probe.net.blockchain THEN Some(last.result)
                                       ELSE None,
                 !.results.blockchain =
                    Some(AutoSyncCaught(ClientSync(probe.net.blockchain, last, "blockchain")))]
  /\ UNCHANGED <<tables, db, now, passes, pending, last, ver, wrote>>
  /\ UNCHANGED cacheVars

AutoSyncNext ==
  \/ AutoSyncPostBrowser
  \/ AutoSyncBrowserSettles
  \/ AutoSyncPostBlockchain
  \/ \E k \in 1..Len(pending) : WriteBlockchainData(k)
  \/ AutoSyncBlockchainSettles

SpecAutoSync == InitAutoSync /\ [][AutoSyncNext]_vars

\* ------------------------------------------------- transfers slice (redux)
\* reducer actions dispatched in one behaviour
MaxDispatch == 3

\* a Deposit as addDeposit receives it
Deposit(id, txHash, chainId) ==
  [id |-> id, type |-> "deposit", txHash |-> txHash, chainId |-> chainId,
   status |-> "pending", finalAmountUsd |-> NULL, updatedAt |-> NoTime]

\* a Withdraw as addWithdraw receives it; it has a txHash and no chainId
Withdraw(id, txHash) ==
  [id |-> id, type |-> "withdraw", txHash |-> txHash, chainId |-> NULL,
   status |-> "pending", finalAmountUsd |-> NULL, updatedAt |-> NoTime]

Deposits ==
  {Deposit("d1", "0xh1", "1"), Deposit("d2", "0xh1", "2"), Deposit("d3", "0xh2", "1")}
Withdraws == {Withdraw("w1", "0xh1")}

\* the payload of updateDeposit: Partial<Deposit> & { txHash, chainId };
\* NULL stands for a field the payload does not carry
DepositUpdates ==
  [txHash : {"0xh1", "0xh2"}, chainId : {"1", "2"}, status : {NULL, "success"},
   finalAmountUsd : {NULL, "5"}]

NoPayload == [txHash |-> NULL, chainId |-> NULL, status |-> NULL, finalAmountUsd |-> NULL]

\* initialState
InitialTransfers == [a \in Addresses |-> None]

\* a transfer added to the list of its account, created when absent
addTransfer(state, addr, transfer, t) ==
  [state EXCEPT ![addr] =
     Some((IF @ = None THEN <<>> ELSE Get(@)) \o <<[transfer EXCEPT !.updatedAt = t]>>)]

\* a match on the transaction hash alone
MatchesTxHashOnly(transfer, deposit) ==
  /\ transfer.type = "deposit"
  /\ transfer.txHash = deposit.txHash

\* isDeposit(transfer) && transfer.txHash === deposit.txHash &&
\* transfer.chainId === deposit.chainId
MatchesDeposit(transfer, deposit) ==
  /\ transfer.type = "deposit"
  /\ transfer.txHash = deposit.txHash
  /\ transfer.chainId = deposit.chainId

\* { ...transfer, ...deposit, updatedAt: Date.now() }
MergeDeposit(transfer, deposit, t) ==
  [transfer EXCEPT !.txHash = deposit.txHash, !.chainId = deposit.chainId,
                   !.status = IF deposit.status = NULL THEN @ ELSE deposit.status,
                   !.finalAmountUsd = IF deposit.finalAmountUsd = NULL THEN @
                                      ELSE deposit.finalAmountUsd,
                   !.updatedAt = t]

\* transfersSlice.reducers.updateDeposit
updateDeposit(state, addr, deposit, t) ==
  IF state[addr] = None THEN state
  ELSE IF Len(Get(state[addr])) = 0 THEN state
  ELSE [state EXCEPT ![addr] =
          Some([i \in 1..Len(Get(@)) |->
                  IF MatchesDeposit(Get(@)[i], deposit)
                    THEN MergeDeposit(Get(@)[i], deposit, t)
                  ELSE Get(@)[i]])]

\* the store holds the initial state of the slice
InitSlice ==
  /\ tables = SchemaTables
  /\ db = EmptyDb
  /\ now = 0
  /\ passes = 0
  /\ pending = <<>>
  /\ last = [op |-> "none", input |-> 0, wallet |-> NULL, status |-> 0,
             called |-> FALSE, result |-> NoResult, writes |-> <<>>,
             threw |-> FALSE, repeat |-> FALSE]
  /\ ver = 0
  /\ wrote = [a \in Accounts |-> 0]
  /\ probe = [fn |-> "transfersSlice", n |-> 0, op |-> "none", account |-> NULL,
              payload |-> NoPayload, transfersByDydxAddress |-> InitialTransfers]
  /\ InitCache

\* the store applies a reducer: the slice holds the state it returned
Dispatched(op, addr, payload, state) ==
  /\ probe.n < MaxDispatch
  /\ probe' = [probe EXCEPT !.n = @ + 1, !.op = op, !.account = addr,
                            !.payload = payload, !.transfersByDydxAddress = state]
  /\ UNCHANGED <<tables, db, now, passes, pending, last, ver, wrote>>
  /\ UNCHANGED cacheVars

AddDeposit(addr, deposit) ==
  /\ probe.fn = "transfersSlice"
  /\ Dispatched("addDeposit", addr, NoPayload,
                addTransfer(probe.transfersByDydxAddress, addr, deposit, now))

AddWithdraw(addr, withdraw) ==
  /\ probe.fn = "transfersSlice"
  /\ Dispatched("addWithdraw", addr, NoPayload,
                addTransfer(probe.transfersByDydxAddress, addr, withdraw, now))

UpdateDeposit(addr, deposit) ==
  /\ probe.fn = "transfersSlice"
  /\ Dispatched("updateDeposit", addr, deposit,
                updateDeposit(probe.transfersByDydxAddress, addr, deposit, now))

SliceNext ==
  \/ Tick
  \/ \E a \in Addresses, d \in Deposits : AddDeposit(a, d)
  \/ \E a \in Addresses, w \in Withdraws : AddWithdraw(a, w)
  \/ \E a \in Addresses, d \in DepositUpdates : UpdateDeposit(a, d)

SpecSlice == InitSlice /\ [][SliceNext]_vars

\* ------------------------------------------------------------- properties
\* a step that handles a sync pass: a snapshot pass, or the write phase of a
\* ledger pass
PassStep == (passes' # passes /\ pending' = pending) \/ Len(pending') < Len(pending)

DataType(op) == IF op = "browser" THEN "browser_storage" ELSE "blockchain"

\* the sync ledger entries of the pass handled last
LedgerEntries ==
  {i \in 1..Len(db["sync_metadata"]) :
     /\ db["sync_metadata"][i].wallet_address = last.wallet
     /\ db["sync_metadata"][i].data_type = DataType(last.op)}

\* a record no statement can store: an unbindable value or a missing NOT NULL
Unbindable(table, row) ==
  \/ \E c \in DOMAIN row \ IntCols : row[c] = BAD
  \/ \E c \in NotNull[table] \cap DOMAIN row : row[c] = NULL

\* C1: in a ledger pass a record that cannot be stored does not abort the
\* pass: for a batch of Balance and Position records of which some Balance
\* record is malformed, every valid Position record is committed and errors
\* has exactly one entry per malformed record.
C1_FailedRecordDoesNotAbort ==
  (tables = SchemaTables /\ last.op = "ledger" /\ last.called) =>
    LET batch  == FetchAll(last.wallet, IndexerStates[last.input], 0)
        badBal == {i \in 1..Len(batch.balances) :
                     Unbindable("account_balances", batch.balances[i])}
        badPos == {i \in 1..Len(batch.positions) :
                     Unbindable("positions", batch.positions[i])}
        okPos  == (1..Len(batch.positions)) \ badPos
    IN  (/\ badBal # {} /\ okPos # {}
         /\ batch.orders = <<>> /\ batch.fills = <<>>
         /\ batch.transfers = <<>> /\ batch.markets = <<>>) =>
          /\ Len(last.result.errors) = Cardinality(badBal) + Cardinality(badPos)
          /\ \A i \in okPos : \E j \in 1..Len(db["positions"]) :
               /\ db["positions"][j].wallet_address = batch.positions[i].wallet_address
               /\ db["positions"][j].position_id = batch.positions[i].position_id

\* C2: the sync ledger entry written by a committed pass has sync_status
\* 'success' only when the pass had no per-record error, and 'partial' when
\* some records failed and at least one was written.
C2_StatusReflectsErrors ==
  (last.called /\ last.result.success) =>
    \A i \in LedgerEntries :
      LET e == db["sync_metadata"][i]
      IN  /\ e.sync_status = "success" => last.result.errors = <<>>
          /\ (last.result.errors # <<>> /\ e.records_synced > 0) =>
               e.sync_status = "partial"

\* the stored rows of a table without their timestamps
TimeCols == {"created_at", "updated_at", "last_updated"}
Untimed(rows) ==
  [i \in 1..Len(rows) |-> [c \in DOMAIN rows[i] \ TimeCols |-> rows[i][c]]]
Stored(d) ==
  [t \in {"account_balances", "user_preferences", "trading_preferences", "affiliates"}
     |-> Untimed(d[t])]

\* C3: a pass that applies the same batch as the pass before it leaves the
\* balance, user-preference, trading-preference and affiliate rows as they
\* were after that pass, apart from timestamps.
C3_SameBatchTwice ==
  [][(PassStep /\ last'.repeat) => Stored(db') = Stored(db)]_vars

\* a committed pass repeated the pass before it, with such rows stored
C3_Witness ==
  /\ last.repeat /\ last.result.success
  /\ db["user_preferences"] # <<>>
  /\ db["trading_preferences"] # <<>>
  /\ db["affiliates"] # <<>>

NoWallets(data) == data.wallets = None \/ Len(Get(data.wallets)) = 0

\* C4: a snapshot whose wallets list is absent or empty is rejected: the
\* endpoint answers with an error status, syncBrowserData returns
\* success = false, and no table changes, the sync ledger included.
C4_NoWalletRejected ==
  [][(PassStep /\ last'.op = "browser" /\ NoWallets(BrowserInputs[last'.input])) =>
       /\ db' = db
       /\ last'.status # 200
       /\ last'.called => ~last'.result.success]_vars

\* such a snapshot was handed to syncBrowserData over a store that holds rows
C4_Witness ==
  /\ last.op = "browser" /\ last.input \in {1, 2} /\ last.called
  /\ db["user_wallets"] # <<>>
  /\ db["sync_metadata"] # <<>>

\* C5: when the transaction of a pass throws, the store is as it was before
\* the pass, and the SyncResult has success = false with the failure as the
\* last entry of errors.
C5_ThrowRollsBack ==
  [][(PassStep /\ last'.called /\ last'.threw) =>
       /\ db' = db
       /\ ~last'.result.success
       /\ last'.result.errors # <<>>
       /\ last'.result.errors[Len(last'.result.errors)] =
            (IF last'.op = "browser" THEN "Transaction failed" ELSE "Sync failed")]_vars

\* a pass threw after statements of it had run
C5_Witness == last.called /\ last.threw /\ Len(last.writes) >= 2

\* C6: once a sync attempt for a wallet and data category has finished, with
\* success or with failure, the sync ledger has an entry for that key.
C6_EntryAfterEveryAttempt ==
  (tables = SchemaTables /\ last.called /\ last.wallet # NULL) => LedgerEntries # {}

\* C7: the sync ledger write is the last write of a pass, and whoever reads
\* the store after the pass finds, next to its ledger entry, a row for every
\* data write of the pass.
C7_LedgerWriteLast ==
  (last.called /\ last.result.success) =>
    LET w == last.writes
    IN  /\ w # <<>>
        /\ w[Len(w)].table = "sync_metadata"
        /\ \A j \in 1..(Len(w) - 1) : w[j].table # "sync_metadata"
        /\ \E i \in 1..Len(SyncStatus(db, last.wallet)) :
             SyncStatus(db, last.wallet)[i].data_type = DataType(last.op)
        /\ \A j \in 1..Len(w) : \E i \in 1..Len(db[w[j].table]) :
             \A c \in w[j].target : db[w[j].table][i][c] = w[j].row[c]

\* a committed pass wrote data rows of several tables and then its ledger entry
C7_Witness ==
  /\ last.called /\ last.result.success
  /\ Len(last.writes) >= 4
  /\ \E j \in 1..Len(last.writes) : last.writes[j].table = "affiliates"

\* C8: a read that starts after syncAll of its facade returned never returns
\* a value loaded before the writes of that sync.
C8_NoStaleReadAfterSync == ret.m # NULL => ret.ver >= ret.floor

\* C9: after a pass committed a write for an account, no facade bound to that
\* account serves from its cache a value loaded before that write.
C9_InvalidatedOnEveryWrite == (ret.m # NULL /\ ret.hit) => ret.ver >= ret.acc

\* C10: a step of syncAll or clearCache of one facade leaves the cache of
\* every facade bound to another account as it was: its entries stay fresh
\* and are served without the loader.
C10_OtherAccountUntouched ==
  [][\A o \in Managers :
       \/ /\ cache'[o] = cache[o]
          /\ \A k \in Keys : Fresh(cache[o][k], now) => Fresh(cache'[o][k], now')
       \/ \A m \in Managers :
            ~(BoundTo[o] # BoundTo[m] /\ (sy'[m] # sy[m] \/ ClearCache(m)))]_vars

\* the facade of the other account served from its cache after a syncAll of a
\* facade of dydx1a had committed and returned
C10_Witness ==
  /\ ret.m = "m3" /\ ret.hit
  /\ ret.peers \cap {"m1", "m2"} # {}

\* C11: getCached returns the stored value without calling the loader exactly
\* when the key has an entry whose age is strictly less than the timeout;
\* otherwise it calls the loader once and, when the loader resolves, stores
\* the result under the key with the current time and returns it.
C11_GetCached ==
  [][\A m \in Managers, k \in Keys :
       /\ StartRead(m, k) =>
            IF cache[m][k].present /\ now - cache[m][k].timestamp < CacheTimeout
              THEN /\ ret'.m = m /\ ret'.key = k /\ ret'.hit
                   /\ ret'.ver = cache[m][k].ver
                   /\ loads' = loads /\ rd' = rd /\ cache' = cache
              ELSE /\ loads' = loads + 1
                   /\ rd'[m][k].phase = "sent"
                   /\ ret' = ret /\ cache' = cache
       /\ ResolveRead(m, k) =>
            /\ cache'[m][k].present
            /\ cache'[m][k].data = rd[m][k].data
            /\ cache'[m][k].timestamp = now
            /\ ret'.m = m /\ ret'.key = k /\ ~ret'.hit
            /\ ret'.ver = rd[m][k].ver
            /\ loads' = loads]_vars

\* an entry that had expired was loaded again and stored with the time of
\* the reload, after the store had changed
C11_Witness ==
  /\ ret.m = "m1" /\ ~ret.hit /\ ret.ver > 0
  /\ cache["m1"]["walletData"].present
  /\ cache["m1"]["walletData"].timestamp = CacheTimeout
  /\ loads = 1

\* C12: needsSync returns true exactly when the store has no sync ledger
\* entry for the wallet and category or the entry's last sync lies more than
\* the interval before now; the request for the entries having been answered.
C12_NeedsSync ==
  (probe.fn = "needsSync" /\ probe.phase = "returned" /\ probe.resp.ok) =>
    LET hits == SelectSeq(SyncStatus(db, probe.wallet),
                          LAMBDA r : r.data_type = probe.dataType)
    IN  probe.result <=> (hits = <<>> \/ now - hits[1].last_sync_at > probe.interval)

\* the batch the ledger pass recorded in l fetched from the indexer
BatchOf(l) == FetchAll(l.wallet, IndexerStates[l.input], now)

Elems(seq) == {seq[i] : i \in DOMAIN seq}

\* the stored rows of a table whose column col holds v
Holding(table, col, v) == {i \in 1..Len(db[table]) : db[table][i][col] = v}

\* a ledger pass against a database that carries schema.sql has returned
LedgerPassDone == tables = SchemaTables /\ last.op = "ledger" /\ last.called

\* C13: fills are append-only: after any sequence of ledger passes there is
\* exactly one stored Fill row per fill id the passes carried, and a pass
\* that carries fills, repeated or not, raises no error for them: it is not
\* failed as a whole and errors has no Fill entry.
C13_FillsAppendOnly ==
  /\ \A i, j \in 1..Len(db["fills"]) :
        db["fills"][i].fill_id = db["fills"][j].fill_id => i = j
  /\ LedgerPassDone =>
        \A f \in Elems(BatchOf(last).fills) :
          /\ Cardinality(Holding("fills", "fill_id", f.fill_id)) = 1
          /\ last.result.success
          /\ "Fill" \notin Elems(last.result.errors)

\* C14: a batch with two Balance rows of one (wallet, chain, symbol, denom)
\* key and different values ends with exactly one stored row for the key,
\* holding the values of the second; there is never more than one Balance
\* row per key.
C14_SecondBalanceWins ==
  LET stored == db["account_balances"]
      key == balanceStmt.target
  IN  /\ \A i, j \in 1..Len(stored) : SameKey(stored[i], stored[j], key) => i = j
      /\ LedgerPassDone =>
            LET bs == BatchOf(last).balances
            IN  \A i \in 1..Len(bs) :
                  (\A j \in (i + 1)..Len(bs) : ~SameKey(bs[j], bs[i], key)) =>
                    /\ Cardinality({k \in 1..Len(stored) : SameKey(stored[k], bs[i], key)}) = 1
                    /\ \A k \in 1..Len(stored) :
                          SameKey(stored[k], bs[i], key) =>
                            /\ stored[k].balance = bs[i].balance
                            /\ stored[k].available_balance = bs[i].available_balance

\* a wallet on the ledger chain: tagged 'dydx', the tag the sync pass looks
\* for, or 'blackbottle', the tag the export gives the ledger-chain address
LedgerChainWallet(w) == w.type = "dydx" \/ w.type = "blackbottle"

\* the first wallet of the list that satisfies P
FirstWhere(ws, P(_)) ==
  IF \E i \in 1..Len(ws) : P(ws[i])
    THEN Some(ws[CHOOSE i \in 1..Len(ws) : P(ws[i]) /\ \A j \in 1..(i - 1) : ~P(ws[j])])
  ELSE None

EvmWallet(w) == w.type = "evm"

\* C15: the primary wallet address of a session-state batch is the
\* ledger-chain address when one is present, else the EVM address, else the
\* first wallet of the list; this holds for the batches the session-state
\* export produces with a ledger-chain and an EVM wallet.
C15_PrimaryWalletPrecedence ==
  (last.op = "browser" /\ last.called /\ ~NoWallets(BrowserInputs[last.input])) =>
    LET ws == Get(BrowserInputs[last.input].wallets)
    IN  last.wallet =
          IF FirstWhere(ws, LedgerChainWallet) # None
            THEN Get(FirstWhere(ws, LedgerChainWallet)).address
          ELSE IF FirstWhere(ws, EvmWallet) # None
            THEN Get(FirstWhere(ws, EvmWallet)).address
          ELSE ws[1].address

\* the step in which a ledger pass writes and returns, on a database that
\* carries schema.sql
LedgerWriteStep == Len(pending') < Len(pending) /\ tables = SchemaTables

\* the rows of a table after the step whose column col holds v
HoldingNext(table, col, v) == {i \in 1..Len(db'[table]) : db'[table][i][col] = v}

OrderFrame == {"wallet_address", "market", "side", "type", "price", "size"}

\* C16: an Order upsert on a stored order id changes only status and
\* remaining size (and the update timestamp): after a ledger pass that
\* carries an order, the one stored row of its id holds the order's status
\* and remaining size, and wallet address, market, side, type, price and size
\* are those of the row stored before the pass.
C16_OrderUpsertFrame ==
  [][LedgerWriteStep =>
       \A o \in Elems(FetchAll(last'.wallet, IndexerStates[last'.input], now).orders) :
         /\ Cardinality(HoldingNext("orders", "order_id", o.order_id)) = 1
         /\ \A i \in HoldingNext("orders", "order_id", o.order_id) :
               /\ db'["orders"][i].status = o.status
               /\ db'["orders"][i].remaining_size = o.remaining_size
               /\ \A j \in Holding("orders", "order_id", o.order_id) :
                     \A c \in OrderFrame : db'["orders"][i][c] = db["orders"][j][c]]_vars

\* the record of table `cat` with identifier id in the batch of pass l
Carried(l, cat, col, id) ==
  {r \in Elems(FetchAll(l.wallet, IndexerStates[l.input], now)[cat]) : r[col] = id}

\* C17: when a ledger pass for wallet B carries an order id or fill id that
\* the ledger pass before it carried for a different wallet A, the collision
\* is reported in errors and A's row stays stored as A's pass wrote it.
C17_CollisionReported ==
  [][(LedgerWriteStep /\ last.op = "ledger" /\ last.called
        /\ last.wallet # last'.wallet) =>
       /\ \A b \in Elems(FetchAll(last'.wallet, IndexerStates[last'.input], now).orders) :
            \A a \in Carried(last, "orders", "order_id", b.order_id) :
              /\ "Order" \in Elems(last'.result.errors)
              /\ \E i \in HoldingNext("orders", "order_id", b.order_id) :
                    /\ db'["orders"][i].wallet_address = last.wallet
                    /\ db'["orders"][i].status = a.status
                    /\ db'["orders"][i].remaining_size = a.remaining_size
       /\ \A b \in Elems(FetchAll(last'.wallet, IndexerStates[last'.input], now).fills) :
            \A a \in Carried(last, "fills", "fill_id", b.fill_id) :
              /\ "Fill" \in Elems(last'.result.errors)
              /\ \E i \in HoldingNext("fills", "fill_id", b.fill_id) :
                    /\ db'["fills"][i].wallet_address = last.wallet
                    /\ db'["fills"][i].fee = a.fee]_vars

\* C18: after any sequence of ledger passes there is at most one stored
\* Position row per (wallet address, position id), and a pass that carries a
\* position leaves the row of its key stored with the size and unrealized
\* P&L it carried: an update of the stored row, or the first insert.
C18_OnePositionPerKey ==
  LET stored == db["positions"]
      key == positionStmt.target
  IN  /\ \A i, j \in 1..Len(stored) : SameKey(stored[i], stored[j], key) => i = j
      /\ LedgerPassDone =>
            \A p \in Elems(BatchOf(last).positions) :
              \E i \in 1..Len(stored) :
                /\ SameKey(stored[i], p, key)
                /\ stored[i].size = p.size
                /\ stored[i].unrealized_pnl = p.unrealized_pnl

TransferFrame ==
  {"wallet_address", "transfer_id", "type", "amount", "token_symbol", "created_at"}

\* C19: in a ledger pass a Transfer whose transaction hash is stored updates
\* only status and update timestamp of the stored row and adds no second
\* row: after the pass one row holds the hash, with the status carried, and
\* the other fields of the row stored before the pass.
C19_TransferStatusOnly ==
  [][LedgerWriteStep =>
       \A x \in Elems(FetchAll(last'.wallet, IndexerStates[last'.input], now).transfers) :
         x.tx_hash # NULL =>
           /\ Cardinality(HoldingNext("transfers", "tx_hash", x.tx_hash)) = 1
           /\ \A i \in HoldingNext("transfers", "tx_hash", x.tx_hash) :
                 /\ db'["transfers"][i].status = x.status
                 /\ \A j \in Holding("transfers", "tx_hash", x.tx_hash) :
                       \A c \in TransferFrame :
                         db'["transfers"][i][c] = db["transfers"][j][c]]_vars

\* a snapshot pass against a database that carries schema.sql has returned
BrowserPassDone ==
  /\ tables = SchemaTables /\ last.op = "browser" /\ last.called
  /\ ~NoWallets(BrowserInputs[last.input])

\* C20: in a session-state pass a Transfer or Swap whose transaction hash is
\* stored and whose status has changed has its stored status replaced: after
\* a pass that carries a transfer or swap with a transaction hash, one row
\* holds that hash and its status is the status carried.
C20_BrowserStatusReplaced ==
  BrowserPassDone =>
    LET data == BrowserInputs[last.input]
        Replaced(table, recs) ==
          \A i \in 1..Len(recs) :
            recs[i].txHash # NULL =>
              /\ Cardinality(Holding(table, "tx_hash", recs[i].txHash)) = 1
              /\ \A k \in Holding(table, "tx_hash", recs[i].txHash) :
                    db[table][k].status = Or(recs[i].status, "PENDING")
    IN  /\ data.transfers # None => Replaced("transfers", Get(data.transfers))
        /\ data.swaps # None => Replaced("swaps", Get(data.swaps))

\* C21: dismissed items have set semantics: every step keeps each stored
\* row as it is, at its place (no update, no delete, an existing pair keeps
\* its first dismissed_at), and leaves one row per (wallet address, item key).
C21_DismissedSetSemantics ==
  [][/\ Len(db'["dismissed_items"]) >= Len(db["dismissed_items"])
     /\ \A i \in 1..Len(db["dismissed_items"]) :
           db'["dismissed_items"][i] = db["dismissed_items"][i]
     /\ \A i, j \in 1..Len(db'["dismissed_items"]) :
           SameKey(db'["dismissed_items"][i], db'["dismissed_items"][j],
                   dismissedStmt.target) => i = j]_vars

\* a snapshot pass committed at time 1 carried the item welcome_dialog again,
\* and its row still holds the time of the first dismissal
C21_Witness ==
  /\ last.op = "browser" /\ last.result.success /\ last.input \in {3, 4}
  /\ \E i \in 1..Len(db["sync_metadata"]) :
        /\ db["sync_metadata"][i].wallet_address = "dydx1a"
        /\ db["sync_metadata"][i].data_type = "browser_storage"
        /\ db["sync_metadata"][i].last_sync_at = 1
  /\ \E i \in 1..Len(db["dismissed_items"]) :
        /\ db["dismissed_items"][i].wallet_address = "dydx1a"
        /\ db["dismissed_items"][i].item_key = "welcome_dialog"
        /\ db["dismissed_items"][i].dismissed_at = 0

\* C22: after any sequence of session-state passes there is at most one
\* WalletLink row per (wallet type, address, chain id), a missing chain id
\* counting as a value of its own: re-syncing a wallet adds no second row.
C22_OneWalletLinkPerKey ==
  \A i, j \in 1..Len(db["user_wallets"]) :
    (\A c \in walletStmt.target : db["user_wallets"][i][c] = db["user_wallets"][j][c])
      => i = j

\* the rows of table t of store d owned by wallet address wa
OwnedRows(d, t, wa) == {d[t][i] : i \in {j \in 1..Len(d[t]) : d[t][j].wallet_address = wa}}

\* C23: user and trading preferences are last-write-wins with no field
\* merge: after a committed snapshot pass that carries preferences, the
\* wallet has one row, equal to the row the same pass stores in an empty
\* database, whatever was stored before.
C23_LastWriteWins ==
  [][(PassStep /\ last'.op = "browser" /\ last'.result.success) =>
       LET data == BrowserInputs[last'.input]
           alone == syncBrowserData(EmptyDb, tables, data, now).db
           Whole(t) ==
             /\ Cardinality({i \in 1..Len(db'[t]) :
                               db'[t][i].wallet_address = last'.wallet}) = 1
             /\ OwnedRows(db', t, last'.wallet) = OwnedRows(alone, t, last'.wallet)
       IN  /\ data.preferences # None => Whole("user_preferences")
           /\ data.tradingPreferences # None => Whole("trading_preferences")]_vars

\* preferences with locale and slippage were stored for dydx1a (with the
\* affiliate only that snapshot carries), then a snapshot without them was
\* committed: the stored rows hold no locale and no slippage
C23_Witness ==
  /\ last.op = "browser" /\ last.result.success /\ last.input = 13
  /\ OwnedRows(db, "affiliates", "dydx1a") # {}
  /\ \A r \in OwnedRows(db, "user_preferences", "dydx1a") : r.locale = NULL
  /\ \A r \in OwnedRows(db, "trading_preferences", "dydx1a") :
        r.default_slippage = NULL /\ r.display_unit = "USD"

\* C24: the six sub-fetches of a ledger pass settle independently. For every
\* subset of sub-fetches whose request fails, each failed one resolves to an
\* empty array, every other one delivers the rows it delivers when nothing
\* fails, Promise.all never rejects, and the pass goes on to its write phase.
C24_SubFetchesIndependent ==
  /\ probe.phase # "rejected"
  /\ \A c \in LedgerCats :
       probe.got[c] # None =>
         Get(probe.got[c]) =
           [rejected |-> FALSE,
            rows |-> IF c \in probe.failed THEN <<>>
                     ELSE FetchAll(probe.addr, probe.ix, now)[c]]
  /\ probe.phase = "writing" =>
       \/ /\ Len(pending) = 1
          /\ \A c \in LedgerCats :
               pending[1].batch[c] = IF c \in probe.failed THEN <<>>
                                     ELSE FetchAll(probe.addr, probe.ix, now)[c]
       \/ /\ pending = <<>>
          /\ last.op = "ledger" /\ last.called /\ last.wallet = probe.addr

C24_Witness ==
  /\ probe.fn = "syncBlockchainData" /\ probe.phase = "writing"
  /\ probe.failed = {"balances", "fills"}
  /\ Get(probe.got["balances"]).rows = <<>>
  /\ Len(Get(probe.got["positions"]).rows) = 1
  /\ Len(Get(probe.got["orders"]).rows) = 2
  /\ Len(Get(probe.got["markets"]).rows) = 1
  /\ last.op = "ledger" /\ last.called

\* the indexer answers every request, and the account has nothing
UpstreamEmpty ==
  [addresses |-> [ok |-> TRUE, subaccounts |-> Some(<<>>)],
   orders |-> [a \in Addresses |-> [ok |-> TRUE, list |-> Some(<<>>)]],
   fills |-> [ok |-> TRUE, fills |-> Some(<<>>)],
   transfers |-> [ok |-> TRUE, transfers |-> Some(<<>>)],
   markets |-> [ok |-> TRUE, markets |-> Some(<<>>)]]

\* C25: when the fetch of a category failed, the SyncResult of the pass
\* reports zero records for it and carries an error for the failure, so the
\* result differs from the result of the same pass over an account whose
\* indexer answered that it has no data in that category.
C25_FailedFetchReported ==
  (/\ probe.fn = "syncBlockchainData" /\ probe.phase = "writing"
   /\ last.op = "ledger" /\ last.called
   /\ probe.failed # {}) =>
     /\ \A c \in probe.failed : last.result.synced[c] = 0
     /\ last.result #
          syncBlockchainData(
            EmptyDb, tables, probe.addr,
            [c \in LedgerCats |->
               IF c \in probe.failed
                 THEN Settle(c, probe.addr, UpstreamEmpty, {}, now).rows
               ELSE Get(probe.got[c]).rows],
            now).result

\* the order ids the indexer holds for the subaccounts whose order request
\* is answered
AnsweredOrderIds(ix) ==
  UNION {IF ix.orders[a].ok /\ ix.orders[a].list # None
           THEN {Get(ix.orders[a].list)[j].id : j \in 1..Len(Get(ix.orders[a].list))}
         ELSE {} :
         a \in {Get(ix.addresses.subaccounts)[i].address :
                  i \in 1..Len(Get(ix.addresses.subaccounts))}}

\* C26: in the order fan-out a failed order request for one subaccount is
\* skipped: the orders sub-fetch does not fail and returns exactly the orders
\* of every subaccount whose request was answered.
C26_OrderFanOutSkipsFailures ==
  (/\ probe.fn = "syncBlockchainData"
   /\ probe.got["orders"] # None
   /\ "orders" \notin probe.failed) =>
     LET res == Get(probe.got["orders"])
     IN  /\ ~res.rejected
         /\ {res.rows[i].order_id : i \in 1..Len(res.rows)} = AnsweredOrderIds(probe.ix)
         /\ Len(res.rows) = Cardinality(AnsweredOrderIds(probe.ix))
         /\ \A i \in 1..Len(res.rows) : res.rows[i].wallet_address = probe.addr

C26_Witness ==
  /\ probe.fn = "syncBlockchainData"
  /\ probe.got["orders"] # None
  /\ "orders" \notin probe.failed
  /\ ~probe.ix.orders["dydx1a"].ok /\ probe.ix.orders["0xb"].ok
  /\ Len(Get(probe.got["orders"]).rows) = 1
  /\ Get(probe.got["orders"]).rows[1].order_id = "o2"

\* the sizes the indexer reported for the positions of the queried account,
\* in the order fetchPositions maps them
ReportedSizes(ix) ==
  Concat([i \in 1..Len(Get(ix.addresses.subaccounts)) |->
            LET ps == Get(ix.addresses.subaccounts)[i].openPerpetualPositions
            IN  IF ps = None THEN <<>>
                ELSE [j \in 1..Len(Get(ps)) |-> Get(ps)[j].size]])

\* the decimal numeral of |n| for the numerals the model uses
Magnitude(s) ==
  CASE s \in {"-3", "3"} -> "3" [] s \in {"-2", "2"} -> "2"
    [] s \in {"-1", "1"} -> "1" [] s = "0" -> "0"

\* C27: for every numeric position size the indexer reports, the mapped
\* position is LONG exactly when the size is positive, SHORT exactly when it
\* is negative, and its size is the absolute value of the reported size.
C27_SideFromSign ==
  (/\ probe.fn = "syncBlockchainData"
   /\ probe.got["positions"] # None
   /\ "positions" \notin probe.failed) =>
     LET rows == Get(probe.got["positions"]).rows
         sizes == ReportedSizes(probe.ix)
     IN  /\ Len(rows) = Len(sizes)
         /\ \A i \in 1..Len(rows) :
              sizes[i] \in Numerals =>
                /\ rows[i].side = "LONG" <=> ParseFloat(sizes[i]) > 0
                /\ rows[i].side = "SHORT" <=> ParseFloat(sizes[i]) < 0
                /\ rows[i].size = Magnitude(sizes[i])

\* C28: when the indexer omits the available/locked breakdown of a
\* subaccount, both the available and the locked balance of the mapped
\* balance row are the full balance.
C28_BreakdownDefaultsToBalance ==
  (/\ probe.fn = "syncBlockchainData"
   /\ probe.got["balances"] # None
   /\ "balances" \notin probe.failed) =>
     LET rows == Get(probe.got["balances"]).rows
         subs == Get(probe.ix.addresses.subaccounts)
     IN  /\ Len(rows) = Len(subs)
         /\ \A i \in 1..Len(rows) :
              /\ rows[i].balance = subs[i].equity
              /\ subs[i].freeCollateral = NULL =>
                   /\ rows[i].available_balance = subs[i].equity
                   /\ rows[i].locked_balance = subs[i].equity

\* the records of category c the indexer delivered, in the order the
\* fetcher maps them to rows
Delivered(c, ix) ==
  LET subs == Get(ix.addresses.subaccounts)
  IN  CASE c = "positions" ->
             Concat([i \in 1..Len(subs) |->
                       IF subs[i].openPerpetualPositions = None THEN <<>>
                       ELSE Get(subs[i].openPerpetualPositions)])
        [] c = "orders" ->
             Concat([i \in 1..Len(subs) |->
                       LET q == ix.orders[subs[i].address]
                       IN  IF ~q.ok \/ q.list = None THEN <<>> ELSE Get(q.list)])
        [] c = "fills" -> Get(ix.fills.fills)
        [] c = "transfers" -> Get(ix.transfers.transfers)

\* the numeric fields of the fetched records: the column, and the fields of
\* the indexer's record it is read from
NumericFields ==
  [positions |-> {<<"entry_price", {"entryPrice"}>>, <<"realized_pnl", {"realizedPnl"}>>,
                  <<"unrealized_pnl", {"unrealizedPnl"}>>},
   orders |-> {<<"price", {"price"}>>, <<"size", {"size"}>>,
               <<"remaining_size", {"remainingSize", "size"}>>},
   fills |-> {<<"size", {"size"}>>, <<"price", {"price"}>>, <<"fee", {"fee"}>>},
   transfers |-> {<<"amount", {"size", "amount"}>>, <<"fee", {"fee"}>>}]

\* C29: every numeric field of every record a fetcher produces is the string
\* "0" when the indexer's record omits it, and is never null.
C29_MissingNumericIsZero ==
  \A c \in DOMAIN NumericFields :
    (/\ probe.fn = "syncBlockchainData"
     /\ probe.got[c] # None
     /\ c \notin probe.failed) =>
       LET rows == Get(probe.got[c]).rows
           recs == Delivered(c, probe.ix)
       IN  /\ Len(rows) = Len(recs)
           /\ \A i \in 1..Len(rows) : \A f \in NumericFields[c] :
                /\ rows[i][f[1]] # NULL
                /\ (\A u \in f[2] : recs[i][u] = NULL) => rows[i][f[1]] = "0"

\* the column of each per-wallet table that names the owning wallet
OwnerCol ==
  [user_wallets |-> "address", user_preferences |-> "wallet_address",
   trading_preferences |-> "wallet_address", dismissed_items |-> "wallet_address",
   affiliates |-> "wallet_address", account_balances |-> "wallet_address",
   positions |-> "wallet_address", orders |-> "wallet_address",
   fills |-> "wallet_address", transfers |-> "wallet_address",
   swaps |-> "wallet_address", sync_metadata |-> "wallet_address"]

\* C30: in every reachable state every row of a per-wallet table has a
\* non-empty owning wallet address, whatever snapshots were synced, a
\* snapshot whose primary wallet has a missing or empty address included.
C30_EveryRowOwned ==
  \A t \in DOMAIN OwnerCol \cap DOMAIN db :
    \A i \in 1..Len(db[t]) : db[t][i][OwnerCol[t]] \notin {NULL, ""}

\* every row the pass handled last wrote is in the store under its key
WritesStored(d, l) ==
  \A n \in 1..Len(l.writes) :
    \E i \in 1..Len(d[l.writes[n].table]) :
      \A c \in l.writes[n].target : d[l.writes[n].table][i][c] = l.writes[n].row[c]

\* C31: the write phases of concurrently launched passes never interleave.
\* A pass still fetching leaves the store alone; every step that ends a pass
\* applies the whole batch of that one pass to the store as the pass before
\* it left it, and leaves the store either with every row of the batch or
\* exactly as it was; the batches of the passes still in flight stay as they
\* were fetched.
C31_WritePhasesSerial ==
  [][/\ Len(pending') > Len(pending) => db' = db
     /\ (Len(pending') < Len(pending)) =>
          \E k \in 1..Len(pending) :
            /\ pending' = [j \in 1..(Len(pending) - 1) |->
                             IF j < k THEN pending[j] ELSE pending[j + 1]]
            /\ last'.op = "ledger" /\ last'.wallet = pending[k].addr
            /\ db' = syncBlockchainData(db, tables, pending[k].addr,
                                        pending[k].batch, now).db
            /\ IF last'.result.success THEN WritesStored(db', last')
               ELSE db' = db
     /\ (passes' # passes /\ pending' = pending /\ last'.called) =>
          /\ last'.op = "browser"
          /\ db' = syncBrowserData(db, tables, BrowserInputs[last'.input], now).db
          /\ IF last'.result.success THEN WritesStored(db', last')
             ELSE db' = db]_vars

\* two ledger passes were launched together; the write phase of one has run,
\* after rows of it were processed, while the other is still in flight
C31_Witness ==
  /\ last.op = "ledger" /\ last.called
  /\ Len(last.writes) >= 1
  /\ Len(pending) = 1

Sources == {"browser", "blockchain"}

\* C32: autoSyncAllData never throws and never drops a failure. When it has
\* returned, both sources have a result; the ledger sync was issued and, when
\* its request got through, handled by the server whatever became of the
\* session-state sync; and for each source whose server-side SyncResult has
\* errors or success = false, or whose request failed altogether, the result
\* returned has a non-empty errors list.
C32_ErrorsNeverDropped ==
  (probe.fn = "autoSyncAllData" /\ probe.phase = "returned") =>
     /\ \A s \in Sources : probe.results[s] # None
     /\ probe.net.blockchain =>
          /\ last.op = "ledger" /\ last.called /\ last.wallet = probe.addr
          /\ probe.server.blockchain = Some(last.result)
     /\ \A s \in Sources :
          LET returned == Get(probe.results[s])
          IN  /\ probe.server[s] # None =>
                   LET served == Get(probe.server[s])
                   IN  /\ (served.errors # <<>> \/ ~served.success) =>
                            returned.errors # <<>>
                       /\ served.success => returned = served
              /\ probe.server[s] = None => (~returned.success /\ returned.errors # <<>>)

\* the session-state sync failed on the server (status 500), the ledger sync
\* ran all the same, and both returned results carry errors
C32_Witness ==
  /\ probe.fn = "autoSyncAllData" /\ probe.phase = "returned"
  /\ probe.net.browser /\ probe.net.blockchain
  /\ probe.server.browser # None
  /\ ~Get(probe.server.browser).success
  /\ Get(probe.results.browser).errors = <<(<<"browser", "Internal Server Error">>)>>
  /\ last.op = "ledger" /\ last.called
  /\ Get(probe.results.blockchain).errors # <<>>

\* C33: after initializeDatabase has run on an empty database file every
\* table of schema.sql exists, and the first sync pass finds the tables it
\* writes to: a well-formed snapshot synced into that database commits.
C33_InitCreatesEveryTable ==
  tables = CreatedByInit =>
    /\ \A t \in SchemaTables : t \in tables
    /\ (last.op = "browser" /\ last.called /\ last.input = 3) => last.result.success

\* the sync ledger entries of d for a wallet and a data category
EntriesFor(d, wa, dataType) ==
  {i \in 1..Len(d["sync_metadata"]) :
     /\ d["sync_metadata"][i].wallet_address = wa
     /\ d["sync_metadata"][i].data_type = dataType}

\* C34: there is at most one sync ledger entry per (wallet address, data
\* category), and it describes the most recent committed pass for that key:
\* after a committed pass the entry of its key holds the sum of the counts
\* of that pass's SyncResult and the time of the pass, the entries of other
\* keys are as before, and a pass that did not commit leaves every entry.
C34_OneEntryPerKey ==
  [][/\ \A i, j \in 1..Len(db'["sync_metadata"]) :
          (/\ db'["sync_metadata"][i].wallet_address = db'["sync_metadata"][j].wallet_address
           /\ db'["sync_metadata"][i].data_type = db'["sync_metadata"][j].data_type) => i = j
     /\ (PassStep /\ last'.called) =>
          IF last'.result.success
            THEN /\ \E i \in EntriesFor(db', last'.wallet, DataType(last'.op)) :
                      /\ db'["sync_metadata"][i].records_synced =
                           SumOver(last'.result.synced, DOMAIN last'.result.synced)
                      /\ db'["sync_metadata"][i].last_sync_at = now
                 /\ \A i \in 1..Len(db["sync_metadata"]) :
                      i \notin EntriesFor(db, last'.wallet, DataType(last'.op)) =>
                        \E j \in 1..Len(db'["sync_metadata"]) :
                          db'["sync_metadata"][j] = db["sync_metadata"][i]
                 /\ Len(db'["sync_metadata"]) =
                      Len(db["sync_metadata"]) +
                        (IF EntriesFor(db, last'.wallet, DataType(last'.op)) = {} THEN 1 ELSE 0)
          ELSE db'["sync_metadata"] = db["sync_metadata"]]_vars

\* a second committed pass for the same key replaced the count of the first
C34_Witness ==
  /\ last.op = "browser" /\ last.result.success /\ last.input = 13
  /\ ver = 2
  /\ Len(db["sync_metadata"]) = 1
  /\ db["sync_metadata"][1].wallet_address = "dydx1a"
  /\ db["sync_metadata"][1].records_synced = 3
  /\ Len(db["dismissed_items"]) = 1

\* C35: the count of a category in SyncResult.synced is the number of
\* records of that category the pass wrote; a duplicate that was ignored as
\* a no-op is not counted. Dismissed items are only ever inserted, so after
\* a committed session-state pass their count is the number of rows the
\* pass added to dismissed_items.
C35_CountsOnlyWrittenRows ==
  [][(PassStep /\ last'.op = "browser" /\ last'.result.success) =>
       last'.result.synced["dismissedItems"] =
         Len(db'["dismissed_items"]) - Len(db["dismissed_items"])]_vars

PositionFrame == {"created_at", "entry_price", "side", "status"}

\* the rows of positions holding the key of p, before and after the step
PositionRows(d, p) ==
  {i \in 1..Len(d["positions"]) :
     \A c \in positionStmt.target : d["positions"][i][c] = p[c]}

\* C36: a Position upsert on a stored (wallet address, position id) changes
\* only size, unrealized P&L and the update timestamp: after a ledger pass
\* that carries a position, the one stored row of its key holds the size and
\* unrealized P&L carried, with creation time, entry price, side and status
\* of the row stored before; and a stored OPEN position stays OPEN, also
\* when the pass no longer carries it.
C36_PositionUpsertFrame ==
  [][LedgerWriteStep =>
       /\ \A p \in Elems(FetchAll(last'.wallet, IndexerStates[last'.input], now).positions) :
            /\ Cardinality(PositionRows(db', p)) = 1
            /\ \A i \in PositionRows(db', p) :
                 /\ db'["positions"][i].size = p.size
                 /\ db'["positions"][i].unrealized_pnl = p.unrealized_pnl
                 /\ \A j \in PositionRows(db, p) :
                      \A c \in PositionFrame : db'["positions"][i][c] = db["positions"][j][c]
       /\ \A j \in 1..Len(db["positions"]) :
            db["positions"][j].status = "OPEN" =>
              \E i \in PositionRows(db', db["positions"][j]) :
                db'["positions"][i].status = "OPEN"]_vars

\* the statements the two passes prepare, in the order they prepare them
LedgerStmts ==
  <<balanceStmt, positionStmt, orderStmt, fillStmt, transferStmt, marketStmt, syncMetaStmt>>
BrowserStmts ==
  <<walletStmt, prefStmt, tradePrefStmt, dismissedStmt, affiliateStmt,
    browserTransferStmt, swapStmt, syncMetaStmt>>

\* C37: every statement a pass prepares names a conflict key that the schema
\* declares unique, so that on a database carrying schema.sql a pass over a
\* well-formed, non-empty batch with every fetch answered commits and
\* returns success = true.
C37_ConflictKeysDeclared ==
  /\ (LedgerPassDone /\ last.input \in {2, 4, 5, 6}) =>
       /\ \A n \in 1..Len(LedgerStmts) :
            LedgerStmts[n].target \in UniqueKeys[LedgerStmts[n].table]
       /\ ~last.threw
       /\ last.result.success
  /\ (BrowserPassDone /\ last.input \in {3, 6, 12}) =>
       /\ \A n \in 1..Len(BrowserStmts) :
            BrowserStmts[n].target \in UniqueKeys[BrowserStmts[n].table]
       /\ ~last.threw
       /\ last.result.success

\* C38: a SyncResult with success = false reports nothing as synced: when a
\* pass failed and was rolled back, every per-category count is zero.
C38_FailedPassCountsZero ==
  (last.called /\ ~last.result.success) =>
     \A c \in DOMAIN last.result.synced : last.result.synced[c] = 0

\* C39: updateDeposit changes exactly the deposits of the given account
\* whose txHash and chainId both equal the payload's: they take the fields
\* the payload carries and the time of the update; every other transfer of
\* the account, every transfer of every other account, and the length and
\* order of each list are unchanged, and the action is a no-op when the
\* account has no transfers.
C39_UpdateDepositFrame ==
  [][(probe.fn = "transfersSlice" /\ probe'.n # probe.n /\ probe'.op = "updateDeposit") =>
       LET before == probe.transfersByDydxAddress
           after == probe'.transfersByDydxAddress
           a == probe'.account
           d == probe'.payload
       IN  /\ \A b \in Addresses \ {a} : after[b] = before[b]
           /\ before[a] = None => after[a] = None
           /\ before[a] # None =>
                /\ after[a] # None
                /\ Len(Get(after[a])) = Len(Get(before[a]))
                /\ \A i \in 1..Len(Get(before[a])) :
                     LET x == Get(before[a])[i]
                         y == Get(after[a])[i]
                     IN  IF x.type = "deposit" /\ x.txHash = d.txHash /\ x.chainId = d.chainId
                           THEN /\ y.id = x.id /\ y.type = "deposit"
                                /\ y.txHash = x.txHash /\ y.chainId = x.chainId
                                /\ y.status = (IF d.status = NULL THEN x.status ELSE d.status)
                                /\ y.finalAmountUsd = (IF d.finalAmountUsd = NULL
                                                         THEN x.finalAmountUsd
                                                       ELSE d.finalAmountUsd)
                                /\ y.updatedAt = now
                         ELSE y = x]_vars

\* an account holds two deposits of one transaction hash on two chains;
\* updateDeposit has changed the deposit of chain 1 only
C39_Witness ==
  /\ probe.fn = "transfersSlice" /\ probe.op = "updateDeposit"
  /\ probe.account = "dydx1a"
  /\ probe.transfersByDydxAddress["dydx1a"] # None
  /\ LET ts == Get(probe.transfersByDydxAddress["dydx1a"])
     IN  /\ Len(ts) = 2
         /\ ts[1].txHash = "0xh1" /\ ts[1].chainId = "2" /\ ts[1].status = "pending"
         /\ ts[1].updatedAt = 0
         /\ ts[2].txHash = "0xh1" /\ ts[2].chainId = "1" /\ ts[2].status = "success"
         /\ ts[2].updatedAt = 1

====
